---- MODULE Spec2Model ----
(***************************************************************************)
(* A model of the rule engine of seo-dev-buddy: the check evaluators and   *)
(* the report aggregator of src/utils/seo-checker.ts, over page facts as   *)
(* src/utils/dom-analyzer.ts extracts them, the analyzers of headings,     *)
(* links, images and structured data, and the two SeoDevBuddy components   *)
(* with their analysis timers.                                             *)
(*                                                                         *)
(* Text that the code inspects character by character (title, description, *)
(* H1 texts, canonical href, displayValue) is a sequence of one-character  *)
(* strings.  Identifiers, statuses and categories, which the code only     *)
(* compares as wholes, are TLA+ strings.  JavaScript numbers that take     *)
(* fractional values are IEEE-754 binary64 values, modelled exactly by the *)
(* F* operators below.                                                     *)
(***************************************************************************)
EXTENDS Integers, Sequences, FiniteSets, TLC

VARIABLES
    facts,      \* the PageFacts handed to the evaluators (metaTags, headings, images, content)
    location,   \* window.location: [origin, href]
    config,     \* the config argument of the last performSEOChecks call
    results,    \* the argument of calculateScore
    called,     \* the function that returned last ("none" before any call)
    result,     \* what that function returned
    report,     \* the SEOReport of the last performSEOChecks call
    previous,   \* the SEOReport of the performSEOChecks call before that
    clock,      \* the time new Date() reads: the number of reports made so far
    document,   \* the DOM the analyzers of dom-analyzer.ts read
    component   \* the React state, effects and timers of a mounted SeoDevBuddy

vars ==
    <<facts, location, config, results, called, result, report, previous, clock, document,
      component>>

-----------------------------------------------------------------------------
(* Bounds of the model. *)

\* calculateScore is applied to every list of at most MaxChecks results.
MaxChecks == 4
\* Titles have up to MaxTitleLen non-blank characters, descriptions MaxDescLen.
MaxTitleLen == 62
MaxDescLen == 162
\* Blank characters before and after a title or description.
MaxPad == 1
\* A page has up to MaxH1 H1 elements, each with a text of up to MaxH1TextLen characters.
MaxH1 == 2
MaxH1TextLen == 11
\* A canonical href is one of the prefixes below followed by up to MaxHrefLen characters.
MaxHrefLen == 3
\* A robots or viewport content is up to MaxDirectives directives joined by ", ".
MaxDirectives == 2
\* A lang attribute has up to MaxLangLen characters.
MaxLangLen == 6
\* The main content has up to MaxWords words, the page up to MaxImages images.
MaxWords == 501
MaxImages == 40
\* performSEOChecks is called up to MaxRuns times on a page.
MaxRuns == 2
\* A document has up to MaxHeadings heading elements.
MaxHeadings == 4
\* A document has up to MaxLinks a[href] elements, up to MaxAlts img elements and
\* up to MaxScripts JSON-LD scripts.
MaxLinks == 2
MaxAlts == 4
MaxScripts == 2
\* The user opens a component up to MaxOpens times.
MaxOpens == 3

-----------------------------------------------------------------------------
(* JavaScript values. *)

\* null, where a string is expected: a sequence no text equals, since its one
\* element is not a single character.
Null == <<"null">>

\* An optional argument or property: Undefined, or Some(v).
Undefined == {}
Some(v) == {v}
The(opt) == CHOOSE v \in opt : TRUE

Min(a, b) == IF a <= b THEN a ELSE b

\* c repeated n times.
Rep(c, n) == [i \in 1..n |-> c]

WhiteSpace == {" ", "\t", "\n"}

RECURSIVE TrimStart(_)
TrimStart(s) ==
    IF s # <<>> /\ Head(s) \in WhiteSpace THEN TrimStart(Tail(s)) ELSE s

RECURSIVE TrimEnd(_)
TrimEnd(s) ==
    IF s # <<>> /\ s[Len(s)] \in WhiteSpace THEN TrimEnd(SubSeq(s, 1, Len(s) - 1)) ELSE s

\* String.prototype.trim
Trim(s) == TrimEnd(TrimStart(s))

\* String.prototype.startsWith
StartsWith(s, p) == Len(s) >= Len(p) /\ SubSeq(s, 1, Len(p)) = p

Digit(d) == CASE d = 0 -> "0" [] d = 1 -> "1" [] d = 2 -> "2" [] d = 3 -> "3"
              [] d = 4 -> "4" [] d = 5 -> "5" [] d = 6 -> "6" [] d = 7 -> "7"
              [] d = 8 -> "8" [] d = 9 -> "9"

\* `${n}` for a non-negative integer n.
RECURSIVE NumToStr(_)
NumToStr(n) == IF n < 10 THEN <<Digit(n)>> ELSE NumToStr(n \div 10) \o <<Digit(n % 10)>>

-----------------------------------------------------------------------------
(* Natural numbers of any size: little-endian sequences of limbs below     *)
(* Base, without leading zero limbs (zero is the empty sequence).          *)

LimbBits == 15
Base == 2 ^ LimbBits

RECURSIVE BigStrip(_)
BigStrip(a) ==
    IF a # <<>> /\ a[Len(a)] = 0 THEN BigStrip(SubSeq(a, 1, Len(a) - 1)) ELSE a

BigOfInt(n) == BigStrip(<<n % Base, (n \div Base) % Base, n \div (Base * Base)>>)

RECURSIVE BigToInt(_)
BigToInt(a) == IF a = <<>> THEN 0 ELSE Head(a) + Base * BigToInt(Tail(a))

Limb(a, i) == IF i <= Len(a) THEN a[i] ELSE 0

RECURSIVE BigAddC(_, _, _, _)
BigAddC(a, b, i, carry) ==
    IF i > Len(a) /\ i > Len(b)
    THEN IF carry = 0 THEN <<>> ELSE <<carry>>
    ELSE LET t == Limb(a, i) + Limb(b, i) + carry
         IN  <<t % Base>> \o BigAddC(a, b, i + 1, t \div Base)

BigAdd(a, b) == BigAddC(a, b, 1, 0)

\* a * k, for 0 <= k < Base
RECURSIVE BigMulC(_, _, _, _)
BigMulC(a, k, i, carry) ==
    IF i > Len(a)
    THEN IF carry = 0 THEN <<>> ELSE <<carry>>
    ELSE LET t == a[i] * k + carry
         IN  <<t % Base>> \o BigMulC(a, k, i + 1, t \div Base)

BigMulSmall(a, k) == BigStrip(BigMulC(a, k, 1, 0))

\* a divided by n, for 0 < n < Base: [q |-> quotient, r |-> remainder]
RECURSIVE BigDivC(_, _, _, _)
BigDivC(a, n, i, rem) ==
    IF i = 0
    THEN [q |-> <<>>, r |-> rem]
    ELSE LET t    == rem * Base + a[i]
             rest == BigDivC(a, n, i - 1, t % n)
         IN  [q |-> rest.q \o <<t \div n>>, r |-> rest.r]

BigDivSmall(a, n) ==
    LET d == BigDivC(a, n, Len(a), 0) IN [q |-> BigStrip(d.q), r |-> d.r]

\* a * 2^s: limb j takes the low bits of limb j - k and the high bits of the
\* limb below it, where s = k * LimbBits + r
BigShl(a, s) ==
    LET k == s \div LimbBits
        r == s % LimbBits
    IN  BigStrip([j \in 1..(Len(a) + k + 1) |->
            IF j <= k THEN 0
            ELSE ((Limb(a, j - k) * (2 ^ r)) % Base)
                 + (IF j - k >= 2 THEN Limb(a, j - k - 1) \div (2 ^ (LimbBits - r)) ELSE 0)])

\* floor(a / 2^s)
BigShr(a, s) ==
    LET k == s \div LimbBits
        r == s % LimbBits
    IN  IF k >= Len(a) THEN <<>>
        ELSE BigStrip([j \in 1..(Len(a) - k) |->
                 (Limb(a, j + k) \div (2 ^ r))
                 + ((Limb(a, j + k + 1) % (2 ^ r)) * (2 ^ (LimbBits - r)))])

\* Number of bits of n, for 0 <= n < Base
RECURSIVE IntBitLen(_)
IntBitLen(n) == IF n = 0 THEN 0 ELSE 1 + IntBitLen(n \div 2)

BigBitLen(a) == IF a = <<>> THEN 0 ELSE LimbBits * (Len(a) - 1) + IntBitLen(a[Len(a)])

\* Bit i of a (bit 0 is the lowest)
BigBit(a, i) == (Limb(a, (i \div LimbBits) + 1) \div (2 ^ (i % LimbBits))) % 2

\* Whether any of the s lowest bits of a is set
BigLowBits(a, s) ==
    \E i \in 1..Len(a) :
        /\ (i - 1) * LimbBits < s
        /\ a[i] % (2 ^ Min(LimbBits, s - (i - 1) * LimbBits)) # 0

-----------------------------------------------------------------------------
(* IEEE-754 binary64, non-negative and finite: [m, e] is m * 2^e, with m a *)
(* Big of exactly SignificandBits bits, or zero.                           *)

SignificandBits == 53

FZero == [m |-> <<>>, e |-> 0]

\* The double nearest to n * 2^e (plus a non-zero amount below one unit of n
\* when sticky), ties to even.
FRound(n, e, sticky) ==
    LET len == BigBitLen(n) IN
    IF n = <<>> THEN FZero
    ELSE IF len <= SignificandBits
    THEN [m |-> BigShl(n, SignificandBits - len), e |-> e - (SignificandBits - len)]
    ELSE LET s     == len - SignificandBits
             kept  == BigShr(n, s)
             guard == BigBit(n, s - 1) = 1
             low   == sticky \/ BigLowBits(n, s - 1)
             up    == guard /\ (low \/ BigBit(kept, 0) = 1)
             m     == IF up THEN BigAdd(kept, <<1>>) ELSE kept
         IN  IF BigBitLen(m) > SignificandBits
             THEN [m |-> BigShr(m, 1), e |-> e + s + 1]
             ELSE [m |-> m, e |-> e + s]

\* The double of an integer 0 <= k < Base^2
FInt(k) == FRound(BigOfInt(k), 0, FALSE)

\* a + b
FAdd(a, b) ==
    IF a.m = <<>> THEN b
    ELSE IF b.m = <<>> THEN a
    ELSE LET e0 == Min(a.e, b.e)
         IN  FRound(BigAdd(BigShl(a.m, a.e - e0), BigShl(b.m, b.e - e0)), e0, FALSE)

\* a / n for an integer 0 < n < Base
FDivInt(a, n) ==
    LET d == BigDivSmall(BigShl(a.m, 2 * LimbBits), n)
    IN  FRound(d.q, a.e - 2 * LimbBits, d.r # 0)

\* a * k for an integer 0 <= k < Base
FMulInt(a, k) == FRound(BigMulSmall(a.m, k), a.e, FALSE)

\* Math.round: the integer nearest to x, ties upwards
MathRound(x) ==
    IF x.m = <<>> THEN 0
    ELSE IF x.e >= 0 THEN BigToInt(BigShl(x.m, x.e))
    ELSE BigToInt(BigShr(x.m, -x.e)) + BigBit(x.m, (-x.e) - 1)

\* The literals 1, 0.5 and 0.8
FOne == FInt(1)
FHalf == FDivInt(FOne, 2)
FPointEight == FDivInt(FInt(8), 10)

-----------------------------------------------------------------------------
(* Text constants. *)

Quote == <<"\"">>
MissingText == <<"M", "i", "s", "s", "i", "n", "g">>
CharactersText == <<" ", "c", "h", "a", "r", "a", "c", "t", "e", "r", "s">>
H1TagsText == <<" ", "H", "1", " ", "t", "a", "g", "s">>
OpenParen == <<" ", "(">>
CharsText == <<" ", "c", "h", "a", "r", "s", ")">>
NotSpecifiedText == <<"N", "o", "t", " ", "s", "p", "e", "c", "i", "f", "i", "e", "d">>
WordsText == <<" ", "w", "o", "r", "d", "s">>
NoImagesText == <<"N", "o", " ", "i", "m", "a", "g", "e", "s", " ", "f", "o", "u", "n", "d">>
MissingAltText == <<" ", "m", "i", "s", "s", "i", "n", "g", " ", "a", "l", "t", " ", "t", "e", "x", "t">>
WithAltText == <<" ", "i", "m", "a", "g", "e", "s", " ", "w", "i", "t", "h", " ", "a", "l", "t", " ", "t", "e", "x", "t">>
HttpPrefix == <<"h", "t", "t", "p", ":", "/", "/">>
HttpsPrefix == <<"h", "t", "t", "p", "s", ":", "/", "/">>
NoIndexText == <<"n", "o", "i", "n", "d", "e", "x">>
NoFollowText == <<"n", "o", "f", "o", "l", "l", "o", "w">>
WidthDeviceText == <<"w", "i", "d", "t", "h", "=", "d", "e", "v", "i", "c", "e", "-", "w", "i", "d", "t", "h">>
InitialScaleText == <<"i", "n", "i", "t", "i", "a", "l", "-", "s", "c", "a", "l", "e", "=", "1">>
PercentSpace == <<"%", "2", "0">>

UpperCase == <<"A", "B", "C", "D", "E", "F", "G", "H", "I", "J", "K", "L", "M",
               "N", "O", "P", "Q", "R", "S", "T", "U", "V", "W", "X", "Y", "Z">>
LowerCase == <<"a", "b", "c", "d", "e", "f", "g", "h", "i", "j", "k", "l", "m",
               "n", "o", "p", "q", "r", "s", "t", "u", "v", "w", "x", "y", "z">>

IsUpper(c) == \E i \in 1..Len(UpperCase) : UpperCase[i] = c
IsLower(c) == \E i \in 1..Len(LowerCase) : LowerCase[i] = c

LowerChar(c) ==
    IF IsUpper(c) THEN LowerCase[CHOOSE i \in 1..Len(UpperCase) : UpperCase[i] = c] ELSE c

\* String.prototype.toLowerCase
ToLowerCase(s) == [i \in 1..Len(s) |-> LowerChar(s[i])]

\* String.prototype.includes
Includes(s, sub) ==
    \E i \in 1..(Len(s) - Len(sub) + 1) : SubSeq(s, i, i + Len(sub) - 1) = sub

\* !s for a string or null
Falsy(s) == s = Null \/ s = <<>>

-----------------------------------------------------------------------------
(* The rule catalog (constants/seo-rules.ts). *)

TITLE_RULES == [MIN_LENGTH |-> 30, MAX_LENGTH |-> 60, OPTIMAL_MIN |-> 50, OPTIMAL_MAX |-> 60]

DESCRIPTION_RULES ==
    [MIN_LENGTH |-> 120, MAX_LENGTH |-> 160, OPTIMAL_MIN |-> 150, OPTIMAL_MAX |-> 160]

CONTENT_RULES == [MIN_WORD_COUNT |-> 300, RECOMMENDED_WORD_COUNT |-> 500, READING_SPEED_WPM |-> 200]

HEADING_RULES == [OPTIMAL_H1_COUNT |-> 1, MAX_H1_COUNT |-> 1, MIN_H2_COUNT |-> 1, MAX_HEADING_DEPTH |-> 6]

SEO_CHECK_IDS ==
    [TITLE |-> "title", DESCRIPTION |-> "description", H1_COUNT |-> "h1-count",
     H1_CONTENT |-> "h1-content", CANONICAL |-> "canonical", ROBOTS |-> "robots",
     HTML_LANG |-> "html-lang", CHARSET |-> "charset", WORD_COUNT |-> "word-count",
     HEADING_STRUCTURE |-> "heading-structure", CONTENT_QUALITY |-> "content-quality",
     IMAGE_ALT |-> "image-alt", VIEWPORT |-> "viewport", OG_TITLE |-> "og-title",
     OG_DESCRIPTION |-> "og-description", OG_IMAGE |-> "og-image", OG_URL |-> "og-url",
     OG_TYPE |-> "og-type", TWITTER_CARD |-> "twitter-card", TWITTER_TITLE |-> "twitter-title",
     TWITTER_DESCRIPTION |-> "twitter-description", TWITTER_IMAGE |-> "twitter-image",
     STRUCTURED_DATA |-> "structured-data", PERFORMANCE |-> "performance",
     MOBILE_FRIENDLY |-> "mobile-friendly", INTERNAL_LINKS |-> "internal-links",
     EXTERNAL_LINKS |-> "external-links", LINK_QUALITY |-> "link-quality"]

SCORE_WEIGHTS ==
    (SEO_CHECK_IDS.TITLE :> 15) @@ (SEO_CHECK_IDS.DESCRIPTION :> 12) @@
    (SEO_CHECK_IDS.H1_COUNT :> 10) @@ (SEO_CHECK_IDS.ROBOTS :> 10) @@
    (SEO_CHECK_IDS.CANONICAL :> 8) @@ (SEO_CHECK_IDS.WORD_COUNT :> 6) @@
    (SEO_CHECK_IDS.IMAGE_ALT :> 6) @@ (SEO_CHECK_IDS.HEADING_STRUCTURE :> 5) @@
    (SEO_CHECK_IDS.STRUCTURED_DATA :> 5) @@ (SEO_CHECK_IDS.VIEWPORT :> 5) @@
    (SEO_CHECK_IDS.OG_TITLE :> 3) @@ (SEO_CHECK_IDS.OG_DESCRIPTION :> 3) @@
    (SEO_CHECK_IDS.OG_IMAGE :> 2) @@ (SEO_CHECK_IDS.TWITTER_CARD :> 2) @@
    (SEO_CHECK_IDS.HTML_LANG :> 4) @@ (SEO_CHECK_IDS.INTERNAL_LINKS :> 3) @@
    (SEO_CHECK_IDS.EXTERNAL_LINKS :> 2)

-----------------------------------------------------------------------------
(* Check results. *)

\* CHECK_CATEGORIES: the check ids the catalog lists under each category.
CHECK_CATEGORIES ==
    [essentials    |-> {SEO_CHECK_IDS.TITLE, SEO_CHECK_IDS.DESCRIPTION,
                        SEO_CHECK_IDS.H1_COUNT, SEO_CHECK_IDS.CANONICAL,
                        SEO_CHECK_IDS.ROBOTS, SEO_CHECK_IDS.HTML_LANG},
     content       |-> {SEO_CHECK_IDS.WORD_COUNT, SEO_CHECK_IDS.HEADING_STRUCTURE,
                        SEO_CHECK_IDS.CONTENT_QUALITY, SEO_CHECK_IDS.H1_CONTENT},
     accessibility |-> {SEO_CHECK_IDS.IMAGE_ALT, SEO_CHECK_IDS.VIEWPORT,
                        SEO_CHECK_IDS.CHARSET},
     social        |-> {SEO_CHECK_IDS.OG_TITLE, SEO_CHECK_IDS.OG_DESCRIPTION,
                        SEO_CHECK_IDS.OG_IMAGE, SEO_CHECK_IDS.OG_URL,
                        SEO_CHECK_IDS.OG_TYPE, SEO_CHECK_IDS.TWITTER_CARD,
                        SEO_CHECK_IDS.TWITTER_TITLE, SEO_CHECK_IDS.TWITTER_DESCRIPTION,
                        SEO_CHECK_IDS.TWITTER_IMAGE},
     technical     |-> {SEO_CHECK_IDS.STRUCTURED_DATA, SEO_CHECK_IDS.CANONICAL,
                        SEO_CHECK_IDS.ROBOTS},
     performance   |-> {SEO_CHECK_IDS.PERFORMANCE},
     mobile        |-> {SEO_CHECK_IDS.MOBILE_FRIENDLY, SEO_CHECK_IDS.VIEWPORT},
     links         |-> {SEO_CHECK_IDS.INTERNAL_LINKS, SEO_CHECK_IDS.EXTERNAL_LINKS,
                        SEO_CHECK_IDS.LINK_QUALITY}]

Statuses == {"success", "warning", "error", "info"}

Categories == {"essentials", "content", "accessibility", "social",
               "technical", "performance", "mobile", "links"}

\* createCheckResult.  The record has a score and a weight field only when the
\* caller passed them, and a details field only when it passed details; the
\* message texts, the recommendation and the help URL are left out.
createCheckResult(id, label, category, status, value, displayValue, isCritical, details, score, weight) ==
    [id |-> id, label |-> label, category |-> category, status |-> status,
     value |-> value, displayValue |-> displayValue, isCritical |-> isCritical,
     details |-> details, score |-> score, weight |-> weight]

\* calculateScore: the loop over results, with its two accumulators.
RECURSIVE ScoreLoop(_, _, _, _)
ScoreLoop(rs, i, passedChecks, warningChecks) ==
    IF i > Len(rs)
    THEN [passedChecks |-> passedChecks, warningChecks |-> warningChecks]
    ELSE CASE rs[i].status = "success" ->
                ScoreLoop(rs, i + 1, FAdd(passedChecks, FOne), warningChecks)
           [] rs[i].status = "warning" ->
                ScoreLoop(rs, i + 1, passedChecks, FAdd(warningChecks, FHalf))
           [] rs[i].status = "info" ->
                ScoreLoop(rs, i + 1, FAdd(passedChecks, FPointEight), warningChecks)
           [] OTHER ->
                ScoreLoop(rs, i + 1, passedChecks, warningChecks)

\* A score that gives no points for warnings.
calculateScorePassedOnly(rs) ==
    LET totalChecks == Len(rs)
        acc         == ScoreLoop(rs, 1, FZero, FZero)
    IN  IF totalChecks > 0
        THEN MathRound(FMulInt(FDivInt(acc.passedChecks, totalChecks), 100))
        ELSE 0

calculateScore(rs) ==
    LET totalChecks == Len(rs)
        acc         == ScoreLoop(rs, 1, FZero, FZero)
    IN  IF totalChecks > 0
        THEN MathRound(FMulInt(FDivInt(FAdd(acc.passedChecks, acc.warningChecks),
                                       totalChecks), 100))
        ELSE 0

-----------------------------------------------------------------------------
(* The check evaluators. *)

\* A title check that tests the title for emptiness without trimming it.
checkTitleNoTrim(metaTags) ==
    LET title  == metaTags.title
        length == Len(title)
        weight == Some(SCORE_WEIGHTS[SEO_CHECK_IDS.TITLE])
    IN  IF Falsy(title)
        THEN createCheckResult(SEO_CHECK_IDS.TITLE, "Title Tag", "essentials", "error",
                 Null, MissingText, TRUE, Undefined, Some(0), weight)
        ELSE IF length < TITLE_RULES.MIN_LENGTH
        THEN createCheckResult(SEO_CHECK_IDS.TITLE, "Title Tag", "essentials", "warning",
                 title, NumToStr(length) \o CharactersText, TRUE,
                 Some([length |-> length, minLength |-> TITLE_RULES.MIN_LENGTH]),
                 Some(30), weight)
        ELSE IF length > TITLE_RULES.MAX_LENGTH
        THEN createCheckResult(SEO_CHECK_IDS.TITLE, "Title Tag", "essentials", "warning",
                 title, NumToStr(length) \o CharactersText, TRUE,
                 Some([length |-> length, maxLength |-> TITLE_RULES.MAX_LENGTH]),
                 Some(60), weight)
        ELSE createCheckResult(SEO_CHECK_IDS.TITLE, "Title Tag", "essentials", "success",
                 title, NumToStr(length) \o CharactersText, TRUE,
                 Some([length |-> length]), Some(100), weight)

checkTitle(metaTags) ==
    LET title  == metaTags.title
        length == Len(title)
        weight == Some(SCORE_WEIGHTS[SEO_CHECK_IDS.TITLE])
    IN  IF Falsy(title) \/ Trim(title) = <<>>
        THEN createCheckResult(SEO_CHECK_IDS.TITLE, "Title Tag", "essentials", "error",
                 Null, MissingText, TRUE, Undefined, Some(0), weight)
        ELSE IF length < TITLE_RULES.MIN_LENGTH
        THEN createCheckResult(SEO_CHECK_IDS.TITLE, "Title Tag", "essentials", "warning",
                 title, NumToStr(length) \o CharactersText, TRUE,
                 Some([length |-> length, minLength |-> TITLE_RULES.MIN_LENGTH]),
                 Some(30), weight)
        ELSE IF length > TITLE_RULES.MAX_LENGTH
        THEN createCheckResult(SEO_CHECK_IDS.TITLE, "Title Tag", "essentials", "warning",
                 title, NumToStr(length) \o CharactersText, TRUE,
                 Some([length |-> length, maxLength |-> TITLE_RULES.MAX_LENGTH]),
                 Some(60), weight)
        ELSE createCheckResult(SEO_CHECK_IDS.TITLE, "Title Tag", "essentials", "success",
                 title, NumToStr(length) \o CharactersText, TRUE,
                 Some([length |-> length]), Some(100), weight)

\* A description check that takes the minimum length itself for too short.
checkDescriptionMinInclusive(metaTags) ==
    LET description == metaTags.description
        length      == Len(description)
        weight      == Some(SCORE_WEIGHTS[SEO_CHECK_IDS.DESCRIPTION])
    IN  IF Falsy(description) \/ Trim(description) = <<>>
        THEN createCheckResult(SEO_CHECK_IDS.DESCRIPTION, "Meta Description", "essentials",
                 "error", Null, MissingText, TRUE, Undefined, Some(0), weight)
        ELSE IF length <= DESCRIPTION_RULES.MIN_LENGTH
        THEN createCheckResult(SEO_CHECK_IDS.DESCRIPTION, "Meta Description", "essentials",
                 "warning", description, NumToStr(length) \o CharactersText, TRUE,
                 Some([length |-> length, minLength |-> DESCRIPTION_RULES.MIN_LENGTH]),
                 Some(40), weight)
        ELSE IF length > DESCRIPTION_RULES.MAX_LENGTH
        THEN createCheckResult(SEO_CHECK_IDS.DESCRIPTION, "Meta Description", "essentials",
                 "warning", description, NumToStr(length) \o CharactersText, TRUE,
                 Some([length |-> length, maxLength |-> DESCRIPTION_RULES.MAX_LENGTH]),
                 Some(70), weight)
        ELSE createCheckResult(SEO_CHECK_IDS.DESCRIPTION, "Meta Description", "essentials",
                 "success", description, NumToStr(length) \o CharactersText, TRUE,
                 Some([length |-> length]), Some(100), weight)

checkDescription(metaTags) ==
    LET description == metaTags.description
        length      == Len(description)
        weight      == Some(SCORE_WEIGHTS[SEO_CHECK_IDS.DESCRIPTION])
    IN  IF Falsy(description) \/ Trim(description) = <<>>
        THEN createCheckResult(SEO_CHECK_IDS.DESCRIPTION, "Meta Description", "essentials",
                 "error", Null, MissingText, TRUE, Undefined, Some(0), weight)
        ELSE IF length < DESCRIPTION_RULES.MIN_LENGTH
        THEN createCheckResult(SEO_CHECK_IDS.DESCRIPTION, "Meta Description", "essentials",
                 "warning", description, NumToStr(length) \o CharactersText, TRUE,
                 Some([length |-> length, minLength |-> DESCRIPTION_RULES.MIN_LENGTH]),
                 Some(40), weight)
        ELSE IF length > DESCRIPTION_RULES.MAX_LENGTH
        THEN createCheckResult(SEO_CHECK_IDS.DESCRIPTION, "Meta Description", "essentials",
                 "warning", description, NumToStr(length) \o CharactersText, TRUE,
                 Some([length |-> length, maxLength |-> DESCRIPTION_RULES.MAX_LENGTH]),
                 Some(70), weight)
        ELSE createCheckResult(SEO_CHECK_IDS.DESCRIPTION, "Meta Description", "essentials",
                 "success", description, NumToStr(length) \o CharactersText, TRUE,
                 Some([length |-> length]), Some(100), weight)

\* An H1 check that marks the H1 content warning as critical.
checkH1ContentCritical(headings) ==
    LET h1     == headings.h1
        h1Text == IF Len(h1.texts) >= 1 THEN h1.texts[1] ELSE <<>>
        length == Len(h1Text)
    IN  IF h1.count = 0
        THEN createCheckResult(SEO_CHECK_IDS.H1_COUNT, "H1 Tag", "essentials", "error",
                 Null, MissingText, TRUE, Some([count |-> 0]), Undefined, Undefined)
        ELSE IF h1.count > HEADING_RULES.MAX_H1_COUNT
        THEN createCheckResult(SEO_CHECK_IDS.H1_COUNT, "H1 Tag", "essentials", "warning",
                 h1.texts, NumToStr(h1.count) \o H1TagsText, TRUE,
                 Some([count |-> h1.count, texts |-> h1.texts]), Undefined, Undefined)
        ELSE IF length < 10
        THEN createCheckResult(SEO_CHECK_IDS.H1_CONTENT, "H1 Content", "content", "warning",
                 h1Text,
                 Quote \o h1Text \o Quote \o OpenParen \o NumToStr(length) \o CharsText,
                 TRUE, Some([text |-> h1Text, length |-> length]), Undefined, Undefined)
        ELSE createCheckResult(SEO_CHECK_IDS.H1_COUNT, "H1 Tag", "essentials", "success",
                 h1Text, Quote \o h1Text \o Quote, TRUE,
                 Some([count |-> h1.count, text |-> h1Text]), Undefined, Undefined)

checkH1(headings) ==
    LET h1     == headings.h1
        h1Text == IF Len(h1.texts) >= 1 THEN h1.texts[1] ELSE <<>>
        length == Len(h1Text)
    IN  IF h1.count = 0
        THEN createCheckResult(SEO_CHECK_IDS.H1_COUNT, "H1 Tag", "essentials", "error",
                 Null, MissingText, TRUE, Some([count |-> 0]), Undefined, Undefined)
        ELSE IF h1.count > HEADING_RULES.MAX_H1_COUNT
        THEN createCheckResult(SEO_CHECK_IDS.H1_COUNT, "H1 Tag", "essentials", "warning",
                 h1.texts, NumToStr(h1.count) \o H1TagsText, TRUE,
                 Some([count |-> h1.count, texts |-> h1.texts]), Undefined, Undefined)
        ELSE IF length < 10
        THEN createCheckResult(SEO_CHECK_IDS.H1_CONTENT, "H1 Content", "content", "warning",
                 h1Text,
                 Quote \o h1Text \o Quote \o OpenParen \o NumToStr(length) \o CharsText,
                 FALSE, Some([text |-> h1Text, length |-> length]), Undefined, Undefined)
        ELSE createCheckResult(SEO_CHECK_IDS.H1_COUNT, "H1 Tag", "essentials", "success",
                 h1Text, Quote \o h1Text \o Quote, TRUE,
                 Some([count |-> h1.count, text |-> h1Text]), Undefined, Undefined)

(* new URL(input, base), as the URL Standard parses hrefs made of letters,  *)
(* digits, ".", ":", "/", "?", "#" and spaces with an http(s) or no scheme. *)
(* The result is [ok |-> FALSE] where the constructor throws, and otherwise *)
(* [ok |-> TRUE, href |-> the serialised URL].                              *)

\* Position of the first character of s from chars at or after i, or Len(s) + 1.
RECURSIVE FindFirst(_, _, _)
FindFirst(s, chars, i) ==
    IF i > Len(s) \/ s[i] \in chars THEN i ELSE FindFirst(s, chars, i + 1)

RECURSIVE SkipSlashes(_)
SkipSlashes(s) == IF s # <<>> /\ Head(s) = "/" THEN SkipSlashes(Tail(s)) ELSE s

RECURSIVE PercentEncode(_)
PercentEncode(s) ==
    IF s = <<>> THEN <<>>
    ELSE (IF Head(s) = " " THEN PercentSpace ELSE <<Head(s)>>) \o PercentEncode(Tail(s))

\* The scheme of a trimmed input: "http", "https", or "" when it has none.
SchemeOf(s) ==
    LET lower == ToLowerCase(s) IN
    IF StartsWith(lower, <<"h", "t", "t", "p", ":">>) THEN "http"
    ELSE IF StartsWith(lower, <<"h", "t", "t", "p", "s", ":">>) THEN "https"
    ELSE ""

SchemeText(scheme) ==
    IF scheme = "http" THEN <<"h", "t", "t", "p">> ELSE <<"h", "t", "t", "p", "s">>

\* scheme://authority/path from the text that follows the scheme's slashes.
ParseAuthority(scheme, rest) ==
    LET afterSlashes == SkipSlashes(rest)
        hostEnd      == FindFirst(afterSlashes, {"/", "?", "#"}, 1)
        host         == SubSeq(afterSlashes, 1, hostEnd - 1)
        tail         == SubSeq(afterSlashes, hostEnd, Len(afterSlashes))
        path         == IF tail = <<>> \/ Head(tail) # "/" THEN <<"/">> \o tail ELSE tail
    IN  IF host = <<>> \/ \E i \in 1..Len(host) : host[i] = " "
        THEN [ok |-> FALSE]
        ELSE [ok |-> TRUE,
              href |-> SchemeText(scheme) \o <<":", "/", "/">> \o ToLowerCase(host)
                       \o PercentEncode(path)]

ParseAbsolute(s) ==
    LET scheme == SchemeOf(s)
    IN  IF scheme = "" THEN [ok |-> FALSE]
        ELSE ParseAuthority(scheme, SubSeq(s, Len(SchemeText(scheme)) + 2, Len(s)))

NewURL(input, base) ==
    LET s      == Trim(input)
        parsed == ParseAbsolute(Trim(base))
        root   == SubSeq(parsed.href, 1, Len(parsed.href) - 1)
    IN  IF ~parsed.ok THEN [ok |-> FALSE]
        ELSE IF SchemeOf(s) # "" THEN ParseAbsolute(s)
        ELSE IF StartsWith(s, <<"/", "/">>) THEN ParseAuthority(SchemeOf(Trim(base)), s)
        ELSE IF StartsWith(s, <<"/">>) THEN [ok |-> TRUE, href |-> root \o PercentEncode(s)]
        ELSE [ok |-> TRUE, href |-> root \o <<"/">> \o PercentEncode(s)]

\* What a caller gets when a TypeError of new URL is not caught.
TypeError == [thrown |-> "TypeError"]

\* A canonical check without the try/catch around new URL.
checkCanonicalNoCatch(metaTags, loc) ==
    LET canonical  == metaTags.canonical
        url        == NewURL(canonical, loc.origin)
        isAbsolute == StartsWith(canonical, HttpPrefix) \/ StartsWith(canonical, HttpsPrefix)
    IN  IF Falsy(canonical)
        THEN createCheckResult(SEO_CHECK_IDS.CANONICAL, "Canonical URL", "technical",
                 "warning", Null, MissingText, FALSE, Undefined, Undefined, Undefined)
        ELSE IF url.ok
        THEN createCheckResult(SEO_CHECK_IDS.CANONICAL, "Canonical URL", "technical",
                 "success", canonical,
                 IF isAbsolute THEN canonical ELSE loc.origin \o canonical, FALSE,
                 Some([url |-> canonical, isAbsolute |-> isAbsolute]), Undefined, Undefined)
        ELSE TypeError

checkCanonical(metaTags, loc) ==
    LET canonical  == metaTags.canonical
        url        == NewURL(canonical, loc.origin)
        isAbsolute == StartsWith(canonical, HttpPrefix) \/ StartsWith(canonical, HttpsPrefix)
    IN  IF Falsy(canonical)
        THEN createCheckResult(SEO_CHECK_IDS.CANONICAL, "Canonical URL", "technical",
                 "warning", Null, MissingText, FALSE, Undefined, Undefined, Undefined)
        ELSE IF url.ok
        THEN createCheckResult(SEO_CHECK_IDS.CANONICAL, "Canonical URL", "technical",
                 "success", canonical,
                 IF isAbsolute THEN canonical ELSE loc.origin \o canonical, FALSE,
                 Some([url |-> canonical, isAbsolute |-> isAbsolute]), Undefined, Undefined)
        ELSE createCheckResult(SEO_CHECK_IDS.CANONICAL, "Canonical URL", "technical",
                 "error", canonical, canonical, FALSE,
                 Some([url |-> canonical, error |-> "Invalid URL format"]),
                 Undefined, Undefined)

\* A robots check that looks for the directives without lowering the case.
checkRobotsCaseSensitive(metaTags) ==
    LET robots      == metaTags.robots
        robotsLower == robots
        hasNoindex  == Includes(robotsLower, NoIndexText)
        hasNofollow == Includes(robotsLower, NoFollowText)
    IN  IF Falsy(robots)
        THEN createCheckResult(SEO_CHECK_IDS.ROBOTS, "Robots Meta", "technical", "info",
                 Null, NotSpecifiedText, FALSE, Undefined, Undefined, Undefined)
        ELSE IF hasNoindex
        THEN createCheckResult(SEO_CHECK_IDS.ROBOTS, "Robots Meta", "technical", "warning",
                 robots, robots, TRUE,
                 Some([directive |-> robots, noindex |-> TRUE, nofollow |-> hasNofollow]),
                 Undefined, Undefined)
        ELSE createCheckResult(SEO_CHECK_IDS.ROBOTS, "Robots Meta", "technical", "success",
                 robots, robots, FALSE,
                 Some([directive |-> robots, noindex |-> FALSE, nofollow |-> hasNofollow]),
                 Undefined, Undefined)

\* A robots check without the test for an absent directive: toLowerCase of null throws.
checkRobotsUnguarded(metaTags) ==
    LET robots      == metaTags.robots
        robotsLower == ToLowerCase(robots)
        hasNoindex  == Includes(robotsLower, NoIndexText)
        hasNofollow == Includes(robotsLower, NoFollowText)
    IN  IF robots = Null
        THEN TypeError
        ELSE IF hasNoindex
        THEN createCheckResult(SEO_CHECK_IDS.ROBOTS, "Robots Meta", "technical", "warning",
                 robots, robots, TRUE,
                 Some([directive |-> robots, noindex |-> TRUE, nofollow |-> hasNofollow]),
                 Undefined, Undefined)
        ELSE createCheckResult(SEO_CHECK_IDS.ROBOTS, "Robots Meta", "technical", "success",
                 robots, robots, FALSE,
                 Some([directive |-> robots, noindex |-> FALSE, nofollow |-> hasNofollow]),
                 Undefined, Undefined)

checkRobots(metaTags) ==
    LET robots      == metaTags.robots
        robotsLower == ToLowerCase(robots)
        hasNoindex  == Includes(robotsLower, NoIndexText)
        hasNofollow == Includes(robotsLower, NoFollowText)
    IN  IF Falsy(robots)
        THEN createCheckResult(SEO_CHECK_IDS.ROBOTS, "Robots Meta", "technical", "info",
                 Null, NotSpecifiedText, FALSE, Undefined, Undefined, Undefined)
        ELSE IF hasNoindex
        THEN createCheckResult(SEO_CHECK_IDS.ROBOTS, "Robots Meta", "technical", "warning",
                 robots, robots, TRUE,
                 Some([directive |-> robots, noindex |-> TRUE, nofollow |-> hasNofollow]),
                 Undefined, Undefined)
        ELSE createCheckResult(SEO_CHECK_IDS.ROBOTS, "Robots Meta", "technical", "success",
                 robots, robots, FALSE,
                 Some([directive |-> robots, noindex |-> FALSE, nofollow |-> hasNofollow]),
                 Undefined, Undefined)

\* The lang pattern without its end anchor: /^[a-z]{2}(-[A-Z]{2})?/.test(lang)
IsValidLangUnanchored(lang) ==
    Len(lang) >= 2 /\ IsLower(lang[1]) /\ IsLower(lang[2])

\* /^[a-z]{2}(-[A-Z]{2})?$/.test(lang)
IsValidLang(lang) ==
    \/ Len(lang) = 2 /\ IsLower(lang[1]) /\ IsLower(lang[2])
    \/ /\ Len(lang) = 5
       /\ IsLower(lang[1]) /\ IsLower(lang[2]) /\ lang[3] = "-"
       /\ IsUpper(lang[4]) /\ IsUpper(lang[5])

checkHtmlLang(metaTags) ==
    LET htmlLang    == metaTags.htmlLang
        isValidLang == IsValidLang(htmlLang)
    IN  IF Falsy(htmlLang)
        THEN createCheckResult(SEO_CHECK_IDS.HTML_LANG, "HTML Lang", "accessibility",
                 "warning", Null, MissingText, FALSE, Undefined, Undefined, Undefined)
        ELSE IF ~isValidLang
        THEN createCheckResult(SEO_CHECK_IDS.HTML_LANG, "HTML Lang", "accessibility",
                 "warning", htmlLang, htmlLang, FALSE,
                 Some([lang |-> htmlLang, isValid |-> FALSE]), Undefined, Undefined)
        ELSE createCheckResult(SEO_CHECK_IDS.HTML_LANG, "HTML Lang", "accessibility",
                 "success", htmlLang, htmlLang, FALSE,
                 Some([lang |-> htmlLang, isValid |-> TRUE]), Undefined, Undefined)

\* A viewport check that warns only when both settings are missing.
checkViewportBothMissing(metaTags) ==
    LET viewport        == metaTags.viewport
        hasWidthDevice  == Includes(viewport, WidthDeviceText)
        hasInitialScale == Includes(viewport, InitialScaleText)
        details         == Some([viewport |-> viewport, hasWidthDevice |-> hasWidthDevice,
                                 hasInitialScale |-> hasInitialScale])
    IN  IF Falsy(viewport)
        THEN createCheckResult(SEO_CHECK_IDS.VIEWPORT, "Viewport Meta", "mobile", "error",
                 Null, MissingText, TRUE, Undefined, Undefined, Undefined)
        ELSE IF ~hasWidthDevice /\ ~hasInitialScale
        THEN createCheckResult(SEO_CHECK_IDS.VIEWPORT, "Viewport Meta", "mobile", "warning",
                 viewport, viewport, FALSE, details, Undefined, Undefined)
        ELSE createCheckResult(SEO_CHECK_IDS.VIEWPORT, "Viewport Meta", "mobile", "success",
                 viewport, viewport, FALSE, details, Undefined, Undefined)

checkViewport(metaTags) ==
    LET viewport        == metaTags.viewport
        hasWidthDevice  == Includes(viewport, WidthDeviceText)
        hasInitialScale == Includes(viewport, InitialScaleText)
        details         == Some([viewport |-> viewport, hasWidthDevice |-> hasWidthDevice,
                                 hasInitialScale |-> hasInitialScale])
    IN  IF Falsy(viewport)
        THEN createCheckResult(SEO_CHECK_IDS.VIEWPORT, "Viewport Meta", "mobile", "error",
                 Null, MissingText, TRUE, Undefined, Undefined, Undefined)
        ELSE IF ~hasWidthDevice \/ ~hasInitialScale
        THEN createCheckResult(SEO_CHECK_IDS.VIEWPORT, "Viewport Meta", "mobile", "warning",
                 viewport, viewport, FALSE, details, Undefined, Undefined)
        ELSE createCheckResult(SEO_CHECK_IDS.VIEWPORT, "Viewport Meta", "mobile", "success",
                 viewport, viewport, FALSE, details, Undefined, Undefined)

\* The result of checkContent keeps its description, a template literal as the
\* sequence of its parts.
checkContent(content) ==
    LET wordCount      == content.wordCount
        meetsMinLength == content.meetsMinLength
        displayValue   == NumToStr(wordCount) \o WordsText
    IN  IF ~meetsMinLength
        THEN createCheckResult(SEO_CHECK_IDS.WORD_COUNT, "Content Length", "content",
                 "warning", wordCount, displayValue, FALSE,
                 Some([wordCount |-> wordCount, minRequired |-> CONTENT_RULES.MIN_WORD_COUNT]),
                 Undefined, Undefined)
             @@ [description |-> <<"Content is too short (", displayValue, ")">>]
        ELSE IF wordCount >= CONTENT_RULES.RECOMMENDED_WORD_COUNT
        THEN createCheckResult(SEO_CHECK_IDS.WORD_COUNT, "Content Length", "content",
                 "success", wordCount, displayValue, FALSE,
                 Some([wordCount |-> wordCount,
                       recommended |-> CONTENT_RULES.RECOMMENDED_WORD_COUNT]),
                 Undefined, Undefined)
             @@ [description |-> <<"Content length is excellent">>]
        ELSE createCheckResult(SEO_CHECK_IDS.WORD_COUNT, "Content Length", "content",
                 "success", wordCount, displayValue, FALSE,
                 Some([wordCount |-> wordCount, minRequired |-> CONTENT_RULES.MIN_WORD_COUNT]),
                 Undefined, Undefined)
             @@ [description |-> <<"Content length meets minimum requirements">>]

checkImages(images) ==
    LET total             == images.total
        missingAlt        == images.missingAlt
        altTextCoverage   == images.altTextCoverage
        missingPercentage == MathRound(FMulInt(FDivInt(FInt(missingAlt), total), 100))
    IN  IF total = 0
        THEN createCheckResult(SEO_CHECK_IDS.IMAGE_ALT, "Image Alt Text", "accessibility",
                 "info", 0, NoImagesText, FALSE, Some([total |-> 0]), Undefined, Undefined)
        ELSE IF missingAlt > 0
        THEN createCheckResult(SEO_CHECK_IDS.IMAGE_ALT, "Image Alt Text", "accessibility",
                 "warning",
                 [total |-> total, missingAlt |-> missingAlt, coverage |-> altTextCoverage],
                 NumToStr(missingAlt) \o <<"/">> \o NumToStr(total) \o MissingAltText, FALSE,
                 Some([total |-> total, missingAlt |-> missingAlt,
                       coverage |-> altTextCoverage,
                       missingPercentage |-> missingPercentage]),
                 Undefined, Undefined)
        ELSE createCheckResult(SEO_CHECK_IDS.IMAGE_ALT, "Image Alt Text", "accessibility",
                 "success",
                 [total |-> total, missingAlt |-> 0, coverage |-> altTextCoverage],
                 NumToStr(total) \o WithAltText, FALSE,
                 Some([total |-> total, missingAlt |-> 0, coverage |-> altTextCoverage]),
                 Undefined, Undefined)

-----------------------------------------------------------------------------
(* The report aggregator. *)

\* A grouping loop that stops one result early.
RECURSIVE GroupLoopStopsEarly(_, _, _)
GroupLoopStopsEarly(checks, i, checksByCategory) ==
    IF i >= Len(checks) THEN checksByCategory
    ELSE GroupLoopStopsEarly(checks, i + 1,
             [checksByCategory EXCEPT ![checks[i].category] = Append(@, checks[i])])

\* checks.forEach(check => checksByCategory[check.category].push(check))
RECURSIVE GroupLoop(_, _, _)
GroupLoop(checks, i, checksByCategory) ==
    IF i > Len(checks) THEN checksByCategory
    ELSE GroupLoop(checks, i + 1,
             [checksByCategory EXCEPT ![checks[i].category] = Append(@, checks[i])])

IsSuccess(r) == r.status = "success"
\* A warnings filter that also lets the info results through.
IsWarningOrInfo(r) == r.status \in {"warning", "info"}
\* A critical filter that forgets the status.
IsCriticalAnyStatus(r) == r.isCritical
IsWarning(r) == r.status = "warning"
IsError(r) == r.status = "error"
\* A critical filter that forgets the flag.
IsCriticalErrorAnyFlag(r) == r.status = "error"
IsCriticalError(r) == r.isCritical /\ r.status = "error"

\* An aggregator that runs the viewport check before the content checks.
performSEOChecksViewportEarly(f, loc, cfg, now) ==
    LET checks == << checkTitle(f.metaTags),
                     checkDescription(f.metaTags),
                     checkH1(f.headings),
                     checkCanonical(f.metaTags, loc),
                     checkRobots(f.metaTags),
                     checkHtmlLang(f.metaTags),
                     checkViewport(f.metaTags),
                     checkContent(f.content),
                     checkImages(f.images) >>
        checksByCategory == GroupLoop(checks, 1, [c \in Categories |-> <<>>])
    IN  IF \E i \in DOMAIN checks : checks[i] = TypeError THEN TypeError
        ELSE
        [timestamp |-> now,
         url |-> loc.href,
         pageTitle |-> f.metaTags.title,
         overallScore |-> calculateScore(checks),
         checks |-> checks,
         checksByCategory |-> checksByCategory,
         summary |-> [total    |-> Len(checks),
                      passed   |-> Len(SelectSeq(checks, IsSuccess)),
                      warnings |-> Len(SelectSeq(checks, IsWarning)),
                      errors   |-> Len(SelectSeq(checks, IsError)),
                      critical |-> Len(SelectSeq(checks, IsCriticalError))],
         rawData |-> f]

\* An aggregator that makes the id of every result unique to the run.
performSEOChecksRunIds(f, loc, cfg, now) ==
    LET evaluated == << checkTitle(f.metaTags),
                     checkDescription(f.metaTags),
                     checkH1(f.headings),
                     checkCanonical(f.metaTags, loc),
                     checkRobots(f.metaTags),
                     checkHtmlLang(f.metaTags),
                     checkContent(f.content),
                     checkImages(f.images),
                     checkViewport(f.metaTags) >>
        checks == [i \in DOMAIN evaluated |-> [evaluated[i] EXCEPT !.id = <<@, now>>]]
        checksByCategory == GroupLoop(checks, 1, [c \in Categories |-> <<>>])
    IN  IF \E i \in DOMAIN checks : checks[i] = TypeError THEN TypeError
        ELSE
        [timestamp |-> now,
         url |-> loc.href,
         pageTitle |-> f.metaTags.title,
         overallScore |-> calculateScore(checks),
         checks |-> checks,
         checksByCategory |-> checksByCategory,
         summary |-> [total    |-> Len(checks),
                      passed   |-> Len(SelectSeq(checks, IsSuccess)),
                      warnings |-> Len(SelectSeq(checks, IsWarning)),
                      errors   |-> Len(SelectSeq(checks, IsError)),
                      critical |-> Len(SelectSeq(checks, IsCriticalError))],
         rawData |-> f]

\* An evaluator that throws ends the call: the caller gets the exception.
performSEOChecks(f, loc, cfg, now) ==
    LET checks == << checkTitle(f.metaTags),
                     checkDescription(f.metaTags),
                     checkH1(f.headings),
                     checkCanonical(f.metaTags, loc),
                     checkRobots(f.metaTags),
                     checkHtmlLang(f.metaTags),
                     checkContent(f.content),
                     checkImages(f.images),
                     checkViewport(f.metaTags) >>
        checksByCategory == GroupLoop(checks, 1, [c \in Categories |-> <<>>])
    IN  IF \E i \in DOMAIN checks : checks[i] = TypeError THEN TypeError
        ELSE
        [timestamp |-> now,
         url |-> loc.href,
         pageTitle |-> f.metaTags.title,
         overallScore |-> calculateScore(checks),
         checks |-> checks,
         checksByCategory |-> checksByCategory,
         summary |-> [total    |-> Len(checks),
                      passed   |-> Len(SelectSeq(checks, IsSuccess)),
                      warnings |-> Len(SelectSeq(checks, IsWarning)),
                      errors   |-> Len(SelectSeq(checks, IsError)),
                      critical |-> Len(SelectSeq(checks, IsCriticalError))],
         rawData |-> f]

-----------------------------------------------------------------------------
(* Page facts, as dom-analyzer.ts extracts them. *)

\* analyzeMetaTags: the fields the evaluators read.
MetaTags(title, description, canonical, robots, htmlLang, viewport) ==
    [title |-> title, description |-> description, canonical |-> canonical,
     robots |-> robots, htmlLang |-> htmlLang, viewport |-> viewport]

\* analyzeHeadings: the H1 part, from the trimmed texts of the page's H1 elements.
H1Info(h1Texts) ==
    [count |-> Len(h1Texts), texts |-> h1Texts, isOptimal |-> Len(h1Texts) = 1]

IsMissingAlt(alt) == alt = Null
IsEmptyAlt(alt) == alt # Null /\ Trim(alt) = <<>>
\* A test for descriptive alt text that measures the attribute as written.
IsDescriptiveAltUntrimmed(alt) == alt # Null /\ Trim(alt) # <<>> /\ Len(alt) >= 10
IsDescriptiveAlt(alt) == alt # Null /\ Trim(alt) # <<>> /\ Len(Trim(alt)) >= 10

\* analyzeImages, from the alt attribute (a text, or null) of each img element.
analyzeImages(alts) ==
    LET total          == Len(alts)
        missingAlt     == Len(SelectSeq(alts, IsMissingAlt))
        emptyAlt       == Len(SelectSeq(alts, IsEmptyAlt))
        descriptiveAlt == Len(SelectSeq(alts, IsDescriptiveAlt))
    IN  [total |-> total, missingAlt |-> missingAlt, emptyAlt |-> emptyAlt,
         descriptiveAlt |-> descriptiveAlt,
         altTextCoverage |->
             IF total > 0
             THEN FMulInt(FDivInt(FInt(descriptiveAlt + emptyAlt), total), 100)
             ELSE FInt(100)]

\* A content analysis that takes the minimum word count itself for too short.
analyzeContentMinExclusive(wordCount) ==
    [wordCount |-> wordCount,
     readingTime |-> (wordCount + CONTENT_RULES.READING_SPEED_WPM - 1)
                        \div CONTENT_RULES.READING_SPEED_WPM,
     meetsMinLength |-> wordCount > CONTENT_RULES.MIN_WORD_COUNT]

\* analyzeContent, from the number of words of the main content.
analyzeContent(wordCount) ==
    [wordCount |-> wordCount,
     readingTime |-> (wordCount + CONTENT_RULES.READING_SPEED_WPM - 1)
                        \div CONTENT_RULES.READING_SPEED_WPM,
     meetsMinLength |-> wordCount >= CONTENT_RULES.MIN_WORD_COUNT]

PageFacts(metaTags, h1Texts, alts, wordCount) ==
    [metaTags |-> metaTags, headings |-> [h1 |-> H1Info(h1Texts)],
     images |-> analyzeImages(alts), content |-> analyzeContent(wordCount)]

-----------------------------------------------------------------------------
(* analyzeHeadings.  A document gives its h1..h6 elements in document order,  *)
(* each with its level and its trimmed text.                                 *)

\* document.querySelectorAll(selector) for the selector of one level: the indices,
\* in document order, of the headings of that level.
QuerySelectorAll(doc, level) ==
    LET HasLevel(i) == doc.headings[i].level = level
    IN  SelectSeq([i \in 1..Len(doc.headings) |-> i], HasLevel)

\* elements.forEach(element => allHeadings.push({level, text, hasProperHierarchy:
\* true, position: allHeadings.length}))
RECURSIVE PushLoop(_, _, _, _)
PushLoop(doc, elements, level, allHeadings) ==
    IF elements = <<>> THEN allHeadings
    ELSE PushLoop(doc, Tail(elements), level,
             Append(allHeadings,
                    [level |-> level, text |-> doc.headings[Head(elements)].text,
                     hasProperHierarchy |-> TRUE, position |-> Len(allHeadings)]))

\* headingSelectors.forEach((selector, index) => ...): level after level.
RECURSIVE CollectLoop(_, _, _)
CollectLoop(doc, level, allHeadings) ==
    IF level > 6 THEN allHeadings
    ELSE CollectLoop(doc, level + 1,
             PushLoop(doc, QuerySelectorAll(doc, level), level, allHeadings))

\* The comparator of the sort.  aElement and bElement are the elements at indices
\* a.position and b.position of the list of all headings in document order;
\* compareDocumentPosition reports DOCUMENT_POSITION_FOLLOWING when bElement
\* follows aElement.
CompareHeadings(a, b) ==
    LET aElement == a.position + 1
        bElement == b.position + 1
    IN  IF bElement > aElement THEN -1 ELSE 1

\* Array.prototype.sort: x goes behind every element the comparator does not put
\* behind it.
RECURSIVE InsertSorted(_, _)
InsertSorted(sorted, x) ==
    IF sorted = <<>> THEN <<x>>
    ELSE IF CompareHeadings(sorted[Len(sorted)], x) > 0
    THEN Append(InsertSorted(SubSeq(sorted, 1, Len(sorted) - 1), x), sorted[Len(sorted)])
    ELSE Append(sorted, x)

RECURSIVE SortHeadings(_)
SortHeadings(allHeadings) ==
    IF allHeadings = <<>> THEN <<>>
    ELSE InsertSorted(SortHeadings(SubSeq(allHeadings, 1, Len(allHeadings) - 1)),
                      allHeadings[Len(allHeadings)])

\* allHeadings.forEach(heading => ...): the hierarchy check.
RECURSIVE HierarchyLoop(_, _, _, _)
HierarchyLoop(allHeadings, i, previousLevel, hasLogicalHierarchy) ==
    IF i > Len(allHeadings)
    THEN [allHeadings |-> allHeadings, hasLogicalHierarchy |-> hasLogicalHierarchy]
    ELSE IF previousLevel > 0 /\ allHeadings[i].level > previousLevel + 1
    THEN HierarchyLoop([allHeadings EXCEPT ![i].hasProperHierarchy = FALSE], i + 1,
                       allHeadings[i].level, FALSE)
    ELSE HierarchyLoop(allHeadings, i + 1, allHeadings[i].level, hasLogicalHierarchy)

analyzeHeadings(doc) ==
    LET collected == CollectLoop(doc, 1, <<>>)
        sorted    == SortHeadings(collected)
        checked   == HierarchyLoop(sorted, 1, 0, TRUE)
        h1Texts   == [k \in 1..Len(QuerySelectorAll(doc, 1)) |->
                         doc.headings[QuerySelectorAll(doc, 1)[k]].text]
    IN  [h1 |-> H1Info(h1Texts),
         h2 |-> Len(QuerySelectorAll(doc, 2)),
         h3 |-> Len(QuerySelectorAll(doc, 3)),
         h4 |-> Len(QuerySelectorAll(doc, 4)),
         h5 |-> Len(QuerySelectorAll(doc, 5)),
         h6 |-> Len(QuerySelectorAll(doc, 6)),
         allHeadings |-> checked.allHeadings,
         hasLogicalHierarchy |-> checked.hasLogicalHierarchy]

-----------------------------------------------------------------------------
(* analyzeLinks.  A document gives its a[href] elements in document order,     *)
(* each with its href attribute, its text content and its target attribute.   *)

\* url.hostname of a serialised http(s) URL: the host without its port.
Hostname(href) ==
    LET start == FindFirst(href, {"/"}, 1) + 2
    IN  SubSeq(href, start, FindFirst(href, {"/", ":", "?", "#"}, start) - 1)

\* new URL(input, base).hostname: [ok |-> FALSE] where the constructor throws.
\* An input with a scheme other than http(s) has the host that follows "//", and
\* an empty hostname without "//" (mailto:, tel:).
HostnameOf(input, base) ==
    LET s      == Trim(input)
        colon  == FindFirst(s, {":", "/", "?", "#"}, 1)
        scheme == /\ SchemeOf(s) = ""
                  /\ colon \in 2..Len(s)
                  /\ s[colon] = ":"
                  /\ \A i \in 1..(colon - 1) : IsUpper(s[i]) \/ IsLower(s[i])
        rest   == SubSeq(s, colon + 1, Len(s))
        url    == NewURL(input, base)
    IN  IF ~ParseAbsolute(Trim(base)).ok THEN [ok |-> FALSE]
        ELSE IF scheme
        THEN [ok |-> TRUE,
              hostname |-> IF StartsWith(rest, <<"/", "/">>)
                           THEN SubSeq(rest, 3, FindFirst(rest, {"/", ":", "?", "#"}, 3) - 1)
                           ELSE <<>>]
        ELSE IF url.ok THEN [ok |-> TRUE, hostname |-> Hostname(url.href)]
        ELSE [ok |-> FALSE]

isInternalLink(href, currentHostname, loc) ==
    LET url == HostnameOf(href, loc.origin)
    IN  IF Falsy(href) THEN FALSE
        ELSE IF \/ StartsWith(href, <<"/">>)
                \/ StartsWith(href, <<"#">>)
                \/ StartsWith(href, <<"?">>)
        THEN TRUE
        ELSE url.ok /\ url.hostname = currentHostname

\* links.forEach(link => ...), from link i on.  The link texts of the model are
\* ASCII, so the two non-ASCII entries of nonDescriptiveTexts never match.
RECURSIVE LinkLoop(_, _, _, _)
LinkLoop(links, i, loc, counts) ==
    LET href   == links[i].href
        text   == Trim(links[i].text)
        target == links[i].target
        currentHostname ==
            IF ParseAbsolute(loc.href).ok THEN Hostname(ParseAbsolute(loc.href).href) ELSE <<>>
        nonDescriptiveTexts ==
            {<<"c", "l", "i", "c", "k", " ", "h", "e", "r", "e">>,
             <<"r", "e", "a", "d", " ", "m", "o", "r", "e">>, <<"m", "o", "r", "e">>,
             <<"h", "e", "r", "e">>, <<"l", "i", "n", "k">>, <<"t", "h", "i", "s">>,
             <<"p", "a", "g", "e">>, <<"w", "e", "b", "s", "i", "t", "e">>,
             <<"u", "r", "l">>}
        skipped ==
            \/ Falsy(href)
            \/ StartsWith(href, <<"m", "a", "i", "l", "t", "o", ":">>)
            \/ StartsWith(href, <<"t", "e", "l", ":">>)
            \/ StartsWith(href, <<"j", "a", "v", "a", "s", "c", "r", "i", "p", "t", ":">>)
        isInternal == isInternalLink(href, currentHostname, loc)
        isExternal == ~isInternal
                      /\ (StartsWith(href, HttpPrefix) \/ StartsWith(href, HttpsPrefix))
    IN  IF i > Len(links) THEN counts
        ELSE IF skipped THEN LinkLoop(links, i + 1, loc, counts)
        ELSE LinkLoop(links, i + 1, loc,
                 [internal       |-> counts.internal + (IF isInternal THEN 1 ELSE 0),
                  external       |-> counts.external + (IF isExternal THEN 1 ELSE 0),
                  nonDescriptive |-> counts.nonDescriptive
                                     + (IF Len(text) < 3
                                           \/ ToLowerCase(text) \in nonDescriptiveTexts
                                        THEN 1 ELSE 0),
                  newWindow      |-> counts.newWindow
                                     + (IF target = <<"_", "b", "l", "a", "n", "k">>
                                        THEN 1 ELSE 0)])

analyzeLinks(doc, loc) ==
    LinkLoop(doc.links, 1, loc,
             [internal |-> 0, external |-> 0, nonDescriptive |-> 0, newWindow |-> 0])

-----------------------------------------------------------------------------
(* analyzeStructuredData.  A document gives the text of its JSON-LD scripts in  *)
(* document order.  A text is the sequence of its lexemes: [t |-> "string",    *)
(* v |-> s] for the string literal of s, [t |-> "number", n |-> n], and [t |-> *)
(* c] for the punctuators "{", "}", "[", "]", ":", ",", for the literals       *)
(* "null", "true", "false", and for a lexeme c that JSON does not have.  A     *)
(* JSON value is [kind |-> "string", value |-> s], [kind |-> "number", number  *)
(* |-> n], [kind |-> "null", "true" or "false"], [kind |-> "array", items |->  *)
(* sequence] or [kind |-> "object", fields |-> function from keys to values].  *)

STRUCTURED_DATA_SCHEMAS ==
    [Article        |-> [required |-> <<"@type", "headline", "author", "datePublished">>],
     Product        |-> [required |-> <<"@type", "name">>],
     Organization   |-> [required |-> <<"@type", "name">>],
     Person         |-> [required |-> <<"@type", "name">>],
     WebSite        |-> [required |-> <<"@type", "name", "url">>],
     BreadcrumbList |-> [required |-> <<"@type", "itemListElement">>],
     FAQ            |-> [required |-> <<"@type", "mainEntity">>],
     HowTo          |-> [required |-> <<"@type", "name", "step">>],
     Recipe         |-> [required |-> <<"@type", "name", "recipeIngredient",
                                        "recipeInstructions">>],
     Event          |-> [required |-> <<"@type", "name", "startDate", "location">>],
     LocalBusiness  |-> [required |-> <<"@type", "name", "address">>],
     Review         |-> [required |-> <<"@type", "itemReviewed", "reviewRating", "author">>],
     VideoObject    |-> [required |-> <<"@type", "name", "description", "thumbnailUrl",
                                        "uploadDate">>],
     ImageObject    |-> [required |-> <<"@type", "contentUrl">>]]

\* JSON.parse(text): [ok |-> FALSE] where it throws a SyntaxError, and otherwise
\* [ok |-> TRUE, value |-> the value].  A later member of an object replaces an
\* earlier one of the same key.
JSONParse(text) ==
    LET Fail == [ok |-> FALSE]
        At(i) == IF i <= Len(text) THEN text[i].t ELSE "end"
        RECURSIVE Value(_), Members(_, _), Elements(_, _)
        Value(i) ==
            IF At(i) = "string"
            THEN [ok |-> TRUE, value |-> [kind |-> "string", value |-> text[i].v],
                  next |-> i + 1]
            ELSE IF At(i) = "number"
            THEN [ok |-> TRUE, value |-> [kind |-> "number", number |-> text[i].n],
                  next |-> i + 1]
            ELSE IF At(i) \in {"null", "true", "false"}
            THEN [ok |-> TRUE, value |-> [kind |-> At(i)], next |-> i + 1]
            ELSE IF At(i) = "{"
            THEN IF At(i + 1) = "}"
                 THEN [ok |-> TRUE, value |-> [kind |-> "object", fields |-> <<>>],
                       next |-> i + 2]
                 ELSE Members(i + 1, <<>>)
            ELSE IF At(i) = "["
            THEN IF At(i + 1) = "]"
                 THEN [ok |-> TRUE, value |-> [kind |-> "array", items |-> <<>>],
                       next |-> i + 2]
                 ELSE Elements(i + 1, <<>>)
            ELSE Fail
        Members(i, fields) ==
            IF At(i) # "string" \/ At(i + 1) # ":" THEN Fail
            ELSE LET member == Value(i + 2)
                     added  == [k \in DOMAIN fields \cup {text[i].v} |->
                                   IF k = text[i].v THEN member.value ELSE fields[k]]
                 IN  IF ~member.ok THEN Fail
                     ELSE IF At(member.next) = "," THEN Members(member.next + 1, added)
                     ELSE IF At(member.next) = "}"
                     THEN [ok |-> TRUE, value |-> [kind |-> "object", fields |-> added],
                           next |-> member.next + 1]
                     ELSE Fail
        Elements(i, items) ==
            LET element == Value(i)
            IN  IF ~element.ok THEN Fail
                ELSE IF At(element.next) = ","
                THEN Elements(element.next + 1, Append(items, element.value))
                ELSE IF At(element.next) = "]"
                THEN [ok |-> TRUE,
                      value |-> [kind |-> "array", items |-> Append(items, element.value)],
                      next |-> element.next + 1]
                ELSE Fail
        parsed == Value(1)
    IN  IF parsed.ok /\ parsed.next = Len(text) + 1
        THEN [ok |-> TRUE, value |-> parsed.value]
        ELSE Fail

\* The item parseJsonLd returns when JSON.parse(script.textContent || '') returned
\* or threw as `parsed` says.  data['@type'] is undefined on a value that is not
\* an object and throws on null; STRUCTURED_DATA_SCHEMAS[type] converts type to a
\* property key (a string is its own key, an array of one string has the key of
\* that string, the model gives every other value the key ","), and finds the
\* schemas and the properties every object inherits, which have no `required`.
JsonLdItem(parsed, position) ==
    LET data      == parsed.value
        type      == IF data.kind = "object" /\ "@type" \in DOMAIN data.fields
                     THEN data.fields["@type"]
                     ELSE [kind |-> "undefined"]
        falsy     == \/ type.kind \in {"undefined", "null", "false"}
                     \/ type.kind = "string" /\ type.value = ""
                     \/ type.kind = "number" /\ type.number = 0
        key       == IF type.kind = "string" THEN type.value
                     ELSE IF /\ type.kind = "array"
                             /\ Len(type.items) = 1
                             /\ type.items[1].kind = "string"
                     THEN type.items[1].value
                     ELSE ","
        inherited == {"constructor", "hasOwnProperty", "isPrototypeOf",
                      "propertyIsEnumerable", "toLocaleString", "toString", "valueOf",
                      "__proto__", "__defineGetter__", "__defineSetter__",
                      "__lookupGetter__", "__lookupSetter__"}
        Caught(error) ==
            [type |-> [kind |-> "string", value |-> "Article"],
             data |-> [kind |-> "object", fields |-> <<>>],
             isValid |-> FALSE,
             errors |-> <<<<"JSON parsing error: ", error>>>>,
             position |-> position]
        Missing(field) ==
            field \notin DOMAIN data.fields \/ data.fields[field].kind = "null"
        errors    ==
            LET required == STRUCTURED_DATA_SCHEMAS[key].required
                absent   == SelectSeq(required, Missing)
            IN  [i \in 1..Len(absent) |-> <<"Missing required field: ", absent[i]>>]
    IN  IF ~parsed.ok THEN Caught("SyntaxError")
        ELSE IF data.kind = "null" THEN Caught("TypeError")
        ELSE IF falsy \/ key \notin (DOMAIN STRUCTURED_DATA_SCHEMAS \cup inherited)
        THEN [type |-> [kind |-> "string", value |-> "Article"],
              data |-> data,
              isValid |-> FALSE,
              errors |-> <<<<"Unknown or unsupported @type: ", type>>>>,
              position |-> position]
        ELSE IF key \in inherited THEN Caught("TypeError")
        ELSE [type |-> type, data |-> data, isValid |-> errors = <<>>, errors |-> errors,
              position |-> position]

parseJsonLd(script, position) == JsonLdItem(JSONParse(script), position)

\* A loop over the scripts that gives up at the first script it cannot parse.
RECURSIVE ScriptLoopAborts(_, _, _, _)
ScriptLoopAborts(jsonLdScripts, index, items, typeCount) ==
    LET item == parseJsonLd(jsonLdScripts[index + 1], index)
        key  == IF item.type.kind = "string" THEN item.type.value
                ELSE item.type.items[1].value
    IN  IF index >= Len(jsonLdScripts) THEN [items |-> items, typeCount |-> typeCount]
        ELSE IF ~JSONParse(jsonLdScripts[index + 1]).ok
        THEN [items |-> items, typeCount |-> typeCount]
        ELSE ScriptLoopAborts(jsonLdScripts, index + 1, Append(items, item),
                              [typeCount EXCEPT ![key] = @ + 1])

\* jsonLdScripts.forEach((script, index) => ...), from script index + 1 on.
RECURSIVE ScriptLoop(_, _, _, _)
ScriptLoop(jsonLdScripts, index, items, typeCount) ==
    LET item == parseJsonLd(jsonLdScripts[index + 1], index)
        key  == IF item.type.kind = "string" THEN item.type.value
                ELSE item.type.items[1].value
    IN  IF index >= Len(jsonLdScripts) THEN [items |-> items, typeCount |-> typeCount]
        ELSE ScriptLoop(jsonLdScripts, index + 1, Append(items, item),
                        [typeCount EXCEPT ![key] = @ + 1])

analyzeStructuredData(doc) ==
    LET jsonLdScripts == doc.scripts
        parsed        == ScriptLoop(jsonLdScripts, 0, <<>>,
                                    [type \in DOMAIN STRUCTURED_DATA_SCHEMAS |-> 0])
        items         == parsed.items
        globalErrors  ==
            IF Len(items) = 0 /\ Len(jsonLdScripts) > 0
            THEN <<"JSON-LD scripts found but none could be parsed successfully">>
            ELSE <<>>
    IN  [hasStructuredData |-> Len(items) > 0,
         items |-> items,
         typeCount |-> parsed.typeCount,
         isValid |-> (\A i \in DOMAIN items : items[i].isValid) /\ Len(globalErrors) = 0,
         globalErrors |-> globalErrors]

-----------------------------------------------------------------------------
(* The SeoDevBuddy components: the popover of lib/seo-dev-buddy.tsx (kind       *)
(* "popover") and the styled one that index.ts exports (kind "styled").  A      *)
(* mounted component is its React state (isOpen, isLoading, seoData), whether   *)
(* the effect that depends on isOpen is scheduled and has not run yet           *)
(* (effectPending), the pending analysis timers, each named by the number of    *)
(* the opening that started it, the variable `timer` of the effect that ran     *)
(* last (0: none), the number of openings so far, and the number of errors      *)
(* logged to the console.  seoData is the initial state or the data of an       *)
(* analysis, [analysed |-> the number of openings when the page was read].      *)

initialState == [analysed |-> 0]

\* The analysis effect of the popover without the cleanup function it returns.
PopoverEffectNoCleanup(c) ==
    IF c.isOpen
    THEN [c EXCEPT !.isLoading = TRUE, !.seoData = initialState,
                   !.timers = @ \cup {c.opens}, !.timer = c.opens]
    ELSE [c EXCEPT !.seoData = initialState, !.isLoading = TRUE, !.timer = 0]

\* useEffect(() => {...}, [isOpen]) of the popover: React runs the cleanup the
\* previous run returned (clearTimeout(timer), if it set a timer), then the effect.
PopoverEffect(c) ==
    LET cleaned == [c EXCEPT !.timers = @ \ {c.timer}]
    IN  IF c.isOpen
        THEN [cleaned EXCEPT !.isLoading = TRUE, !.seoData = initialState,
                             !.timers = @ \cup {c.opens}, !.timer = c.opens]
        ELSE [cleaned EXCEPT !.seoData = initialState, !.isLoading = TRUE, !.timer = 0]

\* useEffect(() => { if (isOpen) analyzeSeoData() }, [isOpen, analyzeSeoData]) of
\* the styled component: setIsLoading(true) and setTimeout(..., 500).
StyledEffect(c) ==
    IF c.isOpen
    THEN [c EXCEPT !.isLoading = TRUE, !.timers = @ \cup {c.opens}]
    ELSE c

\* A timer callback that clears isLoading only after an analysis that succeeded.
TimerCallbackNoFinally(c, t, throws) ==
    [c EXCEPT !.timers = @ \ {t},
              !.seoData = IF throws THEN @ ELSE [analysed |-> c.opens],
              !.logged = IF throws THEN @ + 1 ELSE @,
              !.isLoading = IF throws THEN @ ELSE FALSE]

\* The callback of timer t, in both components: try { ...; setSeoData(...) }
\* catch (error) { console.error(...) } finally { setIsLoading(false) }.
TimerCallback(c, t, throws) ==
    [c EXCEPT !.timers = @ \ {t},
              !.seoData = IF throws THEN @ ELSE [analysed |-> c.opens],
              !.logged = IF throws THEN @ + 1 ELSE @,
              !.isLoading = FALSE]

-----------------------------------------------------------------------------
(* Inputs. *)

ExampleOrigin == <<"h", "t", "t", "p", "s", ":", "/", "/", "e", "x", "a", "m", "p", "l", "e", ".", "c", "o", "m">>
LocalOrigin == <<"h", "t", "t", "p", ":", "/", "/", "l", "o", "c", "a", "l", "h", "o", "s", "t", ":", "3", "0", "0", "0">>
OpaqueOrigin == <<"n", "u", "l", "l">>
IndexFollowText == <<"i", "n", "d", "e", "x", ",", " ", "f", "o", "l", "l", "o", "w">>
NoindexFollowText == <<"n", "o", "i", "n", "d", "e", "x", ",", " ", "f", "o", "l", "l", "o", "w">>
ViewportOptimal == WidthDeviceText \o <<",", " ">> \o InitialScaleText
ViewportFixed == <<"w", "i", "d", "t", "h", "=", "1", "0", "2", "4">>
LangEn == <<"e", "n">>
LangInvalid == <<"i", "n", "v", "a", "l", "i", "d", "-", "l", "a", "n", "g">>
RelativeHref == <<"/", "e">>
DescriptiveAlt == Rep("a", 10)

\* window.location of a page served from origin
Location(origin) == [origin |-> origin, href |-> origin \o <<"/">>]

Origins == {ExampleOrigin, LocalOrigin, OpaqueOrigin}

\* Texts of n characters "x" between blanks
Padded(before, n, after) == Rep(" ", before) \o Rep("x", n) \o Rep(" ", after)

AllTitles ==
    {Padded(b, n, a) : b \in 0..MaxPad, n \in 0..MaxTitleLen, a \in 0..MaxPad}

AllDescriptions ==
    {Null} \cup {Padded(b, n, a) : b \in 0..MaxPad, n \in 0..MaxDescLen, a \in 0..MaxPad}

H1Texts == {Rep("x", n) : n \in 0..MaxH1TextLen}

AllH1Lists == UNION {[1..k -> H1Texts] : k \in 0..MaxH1}

HrefPrefixes ==
    {<<>>, <<"/">>, <<"/", "/">>, HttpPrefix, HttpsPrefix,
     <<"H", "T", "T", "P", ":", "/", "/">>, <<"?">>, <<"#">>}

HrefBodies == UNION {[1..k -> {"e", "/", " "}] : k \in 0..MaxHrefLen}

AllCanonicals == {Null} \cup {p \o b : p \in HrefPrefixes, b \in HrefBodies}

\* One value for each outcome of each evaluator
SomeTitles == {<<>>, Rep("x", TITLE_RULES.MIN_LENGTH - 1), Rep("x", TITLE_RULES.MIN_LENGTH)}
SomeDescriptions ==
    {Null, Rep("x", DESCRIPTION_RULES.MAX_LENGTH + 1), Rep("x", DESCRIPTION_RULES.MAX_LENGTH)}
SomeH1Lists == {<<>>, <<Rep("x", 9)>>, <<Rep("x", 10)>>, <<Rep("x", 10), Rep("x", 10)>>}
SomeCanonicals == {Null, RelativeHref, HttpsPrefix}
SomeRobots == {Null, IndexFollowText, NoindexFollowText}
SomeLangs == {Null, LangEn}
SomeViewports == {Null, ViewportFixed, ViewportOptimal}
SomeAlts == {<<>>, <<Null, DescriptiveAlt>>, <<DescriptiveAlt>>}
SomeWordCounts == {CONTENT_RULES.MIN_WORD_COUNT - 1, CONTENT_RULES.MIN_WORD_COUNT}

\* A page on which every check passes, as the mock page of the unit tests
GoodMeta ==
    MetaTags(Rep("x", TITLE_RULES.MIN_LENGTH), Rep("x", DESCRIPTION_RULES.MIN_LENGTH),
             RelativeHref, IndexFollowText, LangEn, ViewportOptimal)
GoodFacts == PageFacts(GoodMeta, <<Rep("x", 10)>>, <<DescriptiveAlt>>, CONTENT_RULES.MIN_WORD_COUNT)

\* The host's configuration: check ids to leave out and evaluators to add.
\* A custom rule is given by the result it returns.
CustomResult ==
    createCheckResult("custom-rule", "Custom Rule", "technical", "success",
                      Null, <<>>, FALSE, Undefined, Undefined, Undefined)
DefaultConfig == [ignoredChecks |-> {}, customRules |-> <<>>]
Configs ==
    {DefaultConfig,
     [ignoredChecks |-> {SEO_CHECK_IDS.TITLE}, customRules |-> <<CustomResult>>]}

\* Check results of a given status, as arguments of calculateScore
ResultOf(status) ==
    createCheckResult("check", "Check", "technical", status, Null, <<>>, FALSE,
                      Undefined, Undefined, Undefined)
AllResultLists == UNION {[1..k -> {ResultOf(s) : s \in Statuses}] : k \in 0..MaxChecks}

-----------------------------------------------------------------------------
(* The report aggregator on a page: Spec. *)

NoReport == [checks |-> <<>>]
NoResult == [id |-> "none"]
EmptyDocument == [headings |-> <<>>]
NoComponent == [kind |-> "none"]

Init ==
    /\ \E title \in SomeTitles, description \in SomeDescriptions,
          canonical \in SomeCanonicals, robots \in SomeRobots, htmlLang \in SomeLangs,
          viewport \in SomeViewports, h1Texts \in SomeH1Lists, alts \in SomeAlts,
          wordCount \in SomeWordCounts :
            facts = PageFacts(MetaTags(title, description, canonical, robots, htmlLang,
                                       viewport), h1Texts, alts, wordCount)
    /\ location = Location(ExampleOrigin)
    /\ config = DefaultConfig
    /\ results = <<>>
    /\ called = "none"
    /\ result = NoResult
    /\ report = NoReport
    /\ previous = NoReport
    /\ clock = 0
    /\ component = NoComponent
    /\ document = EmptyDocument

\* The host calls performSEOChecks(..., cfg) on the page.
PerformSEOChecks(cfg) ==
    /\ called = "none"
    /\ config' = cfg
    /\ clock' = clock + 1
    /\ report' = performSEOChecks(facts, location, cfg, clock')
    /\ previous' = report
    /\ called' = "performSEOChecks"
    /\ UNCHANGED <<facts, location, results, result, document, component>>

Next == \E cfg \in Configs : PerformSEOChecks(cfg)

Spec == Init /\ [][Next]_vars

-----------------------------------------------------------------------------
(* Repeated runs of the aggregator on one page: SpecRuns. *)

\* The host calls performSEOChecks again on the same page, with the same arguments.
PerformSEOChecksAgain ==
    /\ called = "performSEOChecks"
    /\ clock < MaxRuns
    /\ clock' = clock + 1
    /\ report' = performSEOChecks(facts, location, config, clock')
    /\ previous' = report
    /\ UNCHANGED <<facts, location, config, results, called, result, document, component>>

NextRuns ==
    \/ PerformSEOChecks(DefaultConfig)
    \/ PerformSEOChecksAgain

SpecRuns == Init /\ [][NextRuns]_vars

-----------------------------------------------------------------------------
(* calculateScore on a list of results: SpecScore. *)

InitScore ==
    /\ results \in AllResultLists
    /\ facts = GoodFacts
    /\ location = Location(ExampleOrigin)
    /\ config = DefaultConfig
    /\ called = "none"
    /\ result = NoResult
    /\ report = NoReport
    /\ previous = NoReport
    /\ clock = 0
    /\ component = NoComponent
    /\ document = EmptyDocument

CalculateScore ==
    /\ called = "none"
    /\ result' = calculateScore(results)
    /\ called' = "calculateScore"
    /\ UNCHANGED <<facts, location, config, results, report, previous, clock, document,
                   component>>

NextScore == CalculateScore

SpecScore == InitScore /\ [][NextScore]_vars

-----------------------------------------------------------------------------
(* The evaluators, each on pages that differ in what it reads: SpecChecks. *)

InitChecks ==
    /\ \/ \E title \in AllTitles :
            facts = [GoodFacts EXCEPT !.metaTags.title = title]
       \/ \E description \in AllDescriptions :
            facts = [GoodFacts EXCEPT !.metaTags.description = description]
       \/ \E h1Texts \in AllH1Lists :
            facts = [GoodFacts EXCEPT !.headings.h1 = H1Info(h1Texts)]
       \/ \E canonical \in AllCanonicals :
            facts = [GoodFacts EXCEPT !.metaTags.canonical = canonical]
    /\ location \in {Location(o) : o \in Origins}
    /\ config = DefaultConfig
    /\ results = <<>>
    /\ called = "none"
    /\ result = NoResult
    /\ report = NoReport
    /\ previous = NoReport
    /\ clock = 0
    /\ component = NoComponent
    /\ document = EmptyDocument

Returns(fn, value) ==
    /\ called = "none"
    /\ called' = fn
    /\ result' = value
    /\ UNCHANGED <<facts, location, config, results, report, previous, clock, document,
                   component>>

CheckTitle == Returns("checkTitle", checkTitle(facts.metaTags))
CheckDescription == Returns("checkDescription", checkDescription(facts.metaTags))
CheckH1 == Returns("checkH1", checkH1(facts.headings))
CheckCanonical == Returns("checkCanonical", checkCanonical(facts.metaTags, location))

NextChecks ==
    \/ CheckTitle
    \/ CheckDescription
    \/ CheckH1
    \/ CheckCanonical

SpecChecks == InitChecks /\ [][NextChecks]_vars

-----------------------------------------------------------------------------
(* The other evaluators, each on pages that differ in what it reads:         *)
(* SpecMoreChecks.                                                           *)

\* Directives joined by ", ".
RECURSIVE Joined(_)
Joined(directives) ==
    IF directives = <<>> THEN <<>>
    ELSE IF Len(directives) = 1 THEN directives[1]
    ELSE directives[1] \o <<",", " ">> \o Joined(Tail(directives))

AllRobots ==
    LET directives ==
            {NoIndexText, <<"N", "O", "I", "N", "D", "E", "X">>,
             <<"N", "o", "I", "n", "d", "e", "x">>,
             NoFollowText, <<"N", "o", "F", "o", "l", "l", "o", "w">>,
             <<"i", "n", "d", "e", "x">>, <<"f", "o", "l", "l", "o", "w">>,
             <<"n", "o", "n", "e">>, <<"n", "o", "i", "n", "d", "e">>, <<"x">>}
    IN  {Null} \cup UNION {{Joined(d) : d \in [1..k -> directives]} : k \in 0..MaxDirectives}

AllViewports ==
    LET settings ==
            {WidthDeviceText, InitialScaleText, InitialScaleText \o <<".", "0">>,
             <<"i", "n", "i", "t", "i", "a", "l", "-", "s", "c", "a", "l", "e", "=", "2">>,
             <<"i", "n", "i", "t", "i", "a", "l", "-", "s", "c", "a", "l", "e", "=">>,
             ViewportFixed,
             <<"W", "I", "D", "T", "H", "=", "D", "E", "V", "I", "C", "E", "-", "W", "I", "D", "T", "H">>,
             <<"w", "i", "d", "t", "h", "=", "d", "e", "v", "i", "c", "e">>}
    IN  {Null} \cup UNION {{Joined(d) : d \in [1..k -> settings]} : k \in 0..MaxDirectives}

AllLangs == {Null} \cup UNION {[1..k -> {"e", "N", "-"}] : k \in 0..MaxLangLen}

\* The metrics analyzeContent produces, and the same with the other value of
\* meetsMinLength, as a caller of checkContent may pass them.
AllContents ==
    {[analyzeContent(wordCount) EXCEPT !.meetsMinLength = meets] :
        wordCount \in 0..MaxWords, meets \in BOOLEAN}

\* Pages of total images of which the first missingAlt have no alt attribute.
AllImages ==
    UNION {{analyzeImages(Rep(Null, missing) \o Rep(DescriptiveAlt, total - missing)) :
               missing \in 0..total} : total \in 0..MaxImages}

InitMoreChecks ==
    /\ \/ \E robots \in AllRobots :
            facts = [GoodFacts EXCEPT !.metaTags.robots = robots]
       \/ \E viewport \in AllViewports :
            facts = [GoodFacts EXCEPT !.metaTags.viewport = viewport]
       \/ \E htmlLang \in AllLangs :
            facts = [GoodFacts EXCEPT !.metaTags.htmlLang = htmlLang]
       \/ \E content \in AllContents :
            facts = [GoodFacts EXCEPT !.content = content]
       \/ \E images \in AllImages :
            facts = [GoodFacts EXCEPT !.images = images]
    /\ location = Location(ExampleOrigin)
    /\ config = DefaultConfig
    /\ results = <<>>
    /\ called = "none"
    /\ result = NoResult
    /\ report = NoReport
    /\ previous = NoReport
    /\ clock = 0
    /\ component = NoComponent
    /\ document = EmptyDocument

CheckRobots == Returns("checkRobots", checkRobots(facts.metaTags))
CheckViewport == Returns("checkViewport", checkViewport(facts.metaTags))
CheckHtmlLang == Returns("checkHtmlLang", checkHtmlLang(facts.metaTags))
CheckContent == Returns("checkContent", checkContent(facts.content))
CheckImages == Returns("checkImages", checkImages(facts.images))

NextMoreChecks ==
    \/ CheckRobots
    \/ CheckViewport
    \/ CheckHtmlLang
    \/ CheckContent
    \/ CheckImages

SpecMoreChecks == InitMoreChecks /\ [][NextMoreChecks]_vars

-----------------------------------------------------------------------------
(* analyzeHeadings on a document: SpecHeadings. *)

\* The documents of up to MaxHeadings headings of any levels, in document order.
AllDocuments ==
    {[headings |-> [i \in 1..Len(levels) |-> [level |-> levels[i], text |-> Rep("x", 10)]]] :
        levels \in UNION {[1..k -> 1..6] : k \in 0..MaxHeadings}}

InitHeadings ==
    /\ document \in AllDocuments
    /\ facts = GoodFacts
    /\ location = Location(ExampleOrigin)
    /\ config = DefaultConfig
    /\ results = <<>>
    /\ called = "none"
    /\ result = NoResult
    /\ report = NoReport
    /\ previous = NoReport
    /\ clock = 0
    /\ component = NoComponent

AnalyzeHeadings ==
    /\ called = "none"
    /\ called' = "analyzeHeadings"
    /\ result' = analyzeHeadings(document)
    /\ UNCHANGED <<facts, location, config, results, report, previous, clock, document,
                   component>>

SpecHeadings == InitHeadings /\ [][AnalyzeHeadings]_vars

-----------------------------------------------------------------------------
(* analyzeLinks on a document: SpecLinks. *)

\* The documents of up to MaxLinks a[href] elements.  The hrefs are relative,
\* root-relative, protocol-relative and absolute ones of the page's and of other
\* hosts, and hrefs of other schemes.
AllLinkDocuments ==
    LET example  == <<"e", "x", "a", "m", "p", "l", "e", ".", "c", "o", "m">>
        other    == <<"o", "t", "h", "e", "r", ".", "c", "o", "m">>
        prefixes ==
            {<<>>, <<"e">>, <<"#">>, <<"?">>,
             <<"/", "/">> \o other, <<"/", "/">> \o example, <<" ", "/", "/">> \o other,
             HttpsPrefix \o example, HttpPrefix \o example, HttpsPrefix \o other,
             <<"H", "T", "T", "P", "S", ":", "/", "/">> \o other,
             HttpPrefix \o <<"l", "o", "c", "a", "l", "h", "o", "s", "t", ":", "8", "0", "8", "0">>,
             HttpsPrefix,
             <<"m", "a", "i", "l", "t", "o", ":", "a">>, <<"M", "A", "I", "L", "T", "O", ":", "a">>,
             <<"t", "e", "l", ":", "1">>,
             <<"j", "a", "v", "a", "s", "c", "r", "i", "p", "t", ":", "v">>,
             <<"f", "t", "p", ":", "/", "/">> \o other}
        hrefs    == {p \o t : p \in prefixes, t \in {<<>>, <<"/", "e">>}}
        links    ==
            {[href |-> h, text |-> x[1], target |-> x[2]] :
                h \in hrefs,
                x \in {<<<<"d", "o", "c", "s">>, Null>>,
                       <<<<" ", "H", "e", "r", "e", " ">>, <<"_", "b", "l", "a", "n", "k">>>>,
                       <<<<"g", "o">>, <<"_", "s", "e", "l", "f">>>>}}
    IN  {[links |-> l] : l \in UNION {[1..k -> links] : k \in 0..MaxLinks}}

InitLinks ==
    /\ document \in AllLinkDocuments
    /\ location \in {Location(o) : o \in Origins}
    /\ facts = GoodFacts
    /\ config = DefaultConfig
    /\ results = <<>>
    /\ called = "none"
    /\ result = NoResult
    /\ report = NoReport
    /\ previous = NoReport
    /\ clock = 0
    /\ component = NoComponent

AnalyzeLinks ==
    Returns("analyzeLinks", analyzeLinks(document, location))

SpecLinks == InitLinks /\ [][AnalyzeLinks]_vars

-----------------------------------------------------------------------------
(* analyzeImages on a document: SpecImages. *)

\* The documents of up to MaxAlts img elements, each given by its alt attribute:
\* none, empty, blank, and texts of 9 and 10 characters with and without blanks
\* around them.
AllImageDocuments ==
    LET alts == {Null, <<>>, <<" ">>, Rep("a", 9), DescriptiveAlt, Padded(1, 8, 1),
                 Padded(1, 10, 1)}
    IN  {[images |-> a] : a \in UNION {[1..k -> alts] : k \in 0..MaxAlts}}

InitImages ==
    /\ document \in AllImageDocuments
    /\ location = Location(ExampleOrigin)
    /\ facts = GoodFacts
    /\ config = DefaultConfig
    /\ results = <<>>
    /\ called = "none"
    /\ result = NoResult
    /\ report = NoReport
    /\ previous = NoReport
    /\ clock = 0
    /\ component = NoComponent

AnalyzeImages == Returns("analyzeImages", analyzeImages(document.images))

SpecImages == InitImages /\ [][AnalyzeImages]_vars

-----------------------------------------------------------------------------
(* analyzeStructuredData on a document: SpecStructuredData. *)

\* The documents of up to MaxScripts JSON-LD scripts.  The texts are: texts that
\* are not JSON (empty, truncated, an unknown lexeme, a trailing brace, a trailing
\* comma, a missing comma), values that are not objects, objects without a usable
\* @type, of an unknown @type, of an inherited property name as @type, and
\* objects of the types Product and Article with their required fields present,
\* absent and null, in any order and repeated.
AllScriptDocuments ==
    LET P(c) == <<[t |-> c]>>
        S(v) == <<[t |-> "string", v |-> v]>>
        N(n) == <<[t |-> "number", n |-> n]>>
        M(k, v) == S(k) \o P(":") \o v
        Obj1(a) == P("{") \o a \o P("}")
        Obj2(a, b) == P("{") \o a \o P(",") \o b \o P("}")
        Obj3(a, b, c) == P("{") \o a \o P(",") \o b \o P(",") \o c \o P("}")
        product == M("@type", S("Product"))
        name    == M("name", S("x"))
        texts   ==
            {<<>>, P("{"), P("nul"), P("null"), N(5), S("Article"), P("[") \o P("]"),
             P("[") \o Obj2(product, name) \o P("]"),
             P("{") \o P("}"),
             Obj1(M("@type", S(""))), Obj1(M("@type", P("null"))), Obj1(M("@type", N(5))),
             Obj1(M("@type", S("Thing"))), Obj1(M("@type", S("constructor"))),
             Obj2(M("@type", P("[") \o S("Product") \o P("]")), name),
             Obj2(product, name), Obj1(product), Obj2(product, M("name", P("null"))),
             Obj2(product, M("name", P("false"))), Obj2(name, product),
             Obj3(M("@type", S("Thing")), product, name),
             Obj3(product, name, M("name", P("null"))),
             Obj2(product, name) \o P("}"),
             P("{") \o product \o P(",") \o name \o P(",") \o P("}"),
             P("{") \o product \o name \o P("}"),
             P("{") \o M("@type", S("Article")) \o P(",") \o M("headline", S("x")) \o P(",")
                 \o M("author", Obj1(name)) \o P(",") \o M("datePublished", S("x")) \o P("}"),
             Obj3(M("@type", S("Article")), M("headline", S("x")),
                  M("datePublished", P("null")))}
    IN  {[scripts |-> t] : t \in UNION {[1..k -> texts] : k \in 0..MaxScripts}}

InitStructuredData ==
    /\ document \in AllScriptDocuments
    /\ location = Location(ExampleOrigin)
    /\ facts = GoodFacts
    /\ config = DefaultConfig
    /\ results = <<>>
    /\ called = "none"
    /\ result = NoResult
    /\ report = NoReport
    /\ previous = NoReport
    /\ clock = 0
    /\ component = NoComponent

AnalyzeStructuredData ==
    Returns("analyzeStructuredData", analyzeStructuredData(document))

SpecStructuredData == InitStructuredData /\ [][AnalyzeStructuredData]_vars

-----------------------------------------------------------------------------
(* A mounted SeoDevBuddy component under clicks, effects and timers:         *)
(* SpecComponents, and FairSpecComponents where React runs every scheduled   *)
(* effect and the browser fires every pending timer.                         *)

\* The component as mounted: useState(false), useState(true),
\* useState(initialState), and the effects of the first render scheduled.
Mounted(kind) ==
    [kind |-> kind, isOpen |-> FALSE, isLoading |-> TRUE, seoData |-> initialState,
     effectPending |-> TRUE, timers |-> {}, timer |-> 0, opens |-> 0, logged |-> 0]

InitComponents ==
    /\ component \in {Mounted("popover"), Mounted("styled")}
    /\ document = EmptyDocument
    /\ location = Location(ExampleOrigin)
    /\ facts = GoodFacts
    /\ config = DefaultConfig
    /\ results = <<>>
    /\ called = "none"
    /\ result = NoResult
    /\ report = NoReport
    /\ previous = NoReport
    /\ clock = 0

\* setIsOpen(open), from onOpenChange of the popover and from the button and the
\* backdrop of the styled component.  React runs the effects that are scheduled
\* before it renders the next update.
SetIsOpen(open) ==
    /\ ~component.effectPending
    /\ open # component.isOpen
    /\ open => component.opens < MaxOpens
    /\ component' = [component EXCEPT !.isOpen = open,
                                      !.opens = IF open THEN @ + 1 ELSE @,
                                      !.effectPending = TRUE]
    /\ UNCHANGED <<facts, location, config, results, called, result, report, previous,
                   clock, document>>

\* React runs the scheduled effect, some time after the render is committed.
RunEffect ==
    /\ component.effectPending
    /\ component' = [(IF component.kind = "popover" THEN PopoverEffect(component)
                      ELSE StyledEffect(component))
                        EXCEPT !.effectPending = FALSE]
    /\ UNCHANGED <<facts, location, config, results, called, result, report, previous,
                   clock, document>>

\* A pending timer fires; the analysis of the page succeeds or throws.
TimerFires(t, throws) ==
    /\ t \in component.timers
    /\ component' = TimerCallback(component, t, throws)
    /\ UNCHANGED <<facts, location, config, results, called, result, report, previous,
                   clock, document>>

NextComponents ==
    \/ \E open \in BOOLEAN : SetIsOpen(open)
    \/ RunEffect
    \/ \E t \in 1..MaxOpens, throws \in BOOLEAN : TimerFires(t, throws)

SpecComponents == InitComponents /\ [][NextComponents]_vars

FairSpecComponents ==
    /\ SpecComponents
    /\ WF_vars(RunEffect)
    /\ WF_vars(\E t \in 1..MaxOpens, throws \in BOOLEAN : TimerFires(t, throws))

-----------------------------------------------------------------------------
(* Claims about calculateScore (SpecScore). *)

\* Points of a status in tenths: success 1.0, info 0.8, warning 0.5, error 0.
PointsInTenths(status) ==
    CASE status = "success" -> 10 [] status = "info" -> 8
      [] status = "warning" -> 5 [] OTHER -> 0

RECURSIVE SumOfPoints(_)
SumOfPoints(rs) ==
    IF rs = <<>> THEN 0 ELSE PointsInTenths(Head(rs).status) + SumOfPoints(Tail(rs))

\* round(sum(points) / n * 100) in exact arithmetic, halves rounded up: with S the
\* sum in tenths this is floor(10 * S / n + 1/2).
RoundedMean(rs) ==
    IF rs = <<>> THEN 0 ELSE (20 * SumOfPoints(rs) + Len(rs)) \div (2 * Len(rs))

ScoreWithinOne ==
    called = "calculateScore" =>
        /\ result \in 0..100
        /\ (results = <<>> => result = 0)
        /\ result \in {RoundedMean(results) - 1, RoundedMean(results)}

-----------------------------------------------------------------------------
(* Claims about the report of performSEOChecks (Spec). *)

Reported == called = "performSEOChecks"

\* The number of results of a list with the given status, counted by position.
CountStatus(checks, status) ==
    Cardinality({i \in DOMAIN checks : checks[i].status = status})

CountCriticalErrors(checks) ==
    Cardinality({i \in DOMAIN checks : checks[i].isCritical /\ checks[i].status = "error"})

\* C2: in every report, passed, warnings and errors count the results with status
\* success, warning and error, critical counts the critical results with status
\* error, total is the length of the list and equals passed + warnings + errors +
\* the number of info results, and critical <= errors.
C2_SummaryCounts ==
    Reported =>
        LET s == report.summary
            c == report.checks
        IN  /\ s.total = Len(c)
            /\ s.passed = CountStatus(c, "success")
            /\ s.warnings = CountStatus(c, "warning")
            /\ s.errors = CountStatus(c, "error")
            /\ s.critical = CountCriticalErrors(c)
            /\ s.total = s.passed + s.warnings + s.errors + CountStatus(c, "info")
            /\ s.critical <= s.errors

\* A report with info results, a critical result that is only a warning, and a
\* critical error next to a non-critical one.
C2_Witness ==
    /\ Reported
    /\ CountStatus(report.checks, "info") > 0
    /\ \E i \in DOMAIN report.checks :
           report.checks[i].isCritical /\ report.checks[i].status = "warning"
    /\ report.summary.critical > 0
    /\ report.summary.critical < report.summary.errors

\* C3 as stated: in every report total = passed + warnings + errors, and
\* critical <= errors.
C3_TotalIsSumOfThree ==
    Reported =>
        /\ report.summary.total
               = report.summary.passed + report.summary.warnings + report.summary.errors
        /\ report.summary.critical <= report.summary.errors

\* C3, amended: total = passed + warnings + errors exactly when no result has status
\* info, which is when the page has a robots directive and at least one image;
\* otherwise total exceeds the sum by the number of info results.  critical <=
\* errors in every report.
C3_TotalIsSumUnlessInfo ==
    Reported =>
        LET s == report.summary
            noInfo == /\ ~Falsy(facts.metaTags.robots)
                      /\ facts.images.total > 0
        IN  /\ (s.total = s.passed + s.warnings + s.errors) <=> noInfo
            /\ noInfo <=> CountStatus(report.checks, "info") = 0
            /\ s.total - (s.passed + s.warnings + s.errors)
                   = CountStatus(report.checks, "info")
            /\ s.critical <= s.errors

\* A report of a page with a robots directive and images, with warnings and errors.
C3_Witness ==
    /\ Reported
    /\ ~Falsy(facts.metaTags.robots)
    /\ facts.images.total > 0
    /\ report.summary.warnings > 0
    /\ report.summary.errors > 0
    /\ report.summary.total
           = report.summary.passed + report.summary.warnings + report.summary.errors

\* The ids of a list of results, in order.
IdsOf(checks) == [i \in DOMAIN checks |-> checks[i].id]

\* C4 as stated: every report holds exactly nine results whose ids are, in order,
\* title, description, h1-count, canonical, robots, html-lang, word-count,
\* image-alt, viewport, and total is 9.
C4_NineChecksFixedIds ==
    Reported =>
        /\ IdsOf(report.checks)
               = <<"title", "description", "h1-count", "canonical", "robots",
                   "html-lang", "word-count", "image-alt", "viewport">>
        /\ report.summary.total = 9

\* C4, amended: every report holds exactly nine results, in the order title,
\* description, H1, canonical, robots, html-lang, word-count, image-alt, viewport,
\* and total is 9; the id of the third is h1-content when the page has exactly one
\* H1 whose text is shorter than 10 characters, and h1-count otherwise.
C4_NineChecksH1Slot ==
    Reported =>
        LET h1 == facts.headings.h1
            shortH1 == h1.count = 1 /\ Len(h1.texts[1]) < 10
        IN  /\ IdsOf(report.checks)
                   = <<"title", "description",
                       IF shortH1 THEN "h1-content" ELSE "h1-count",
                       "canonical", "robots", "html-lang", "word-count",
                       "image-alt", "viewport">>
            /\ report.summary.total = 9

\* A report of a page with one short H1.
C4_Witness ==
    /\ Reported
    /\ facts.headings.h1.count = 1
    /\ Len(report.checks) = 9
    /\ report.checks[3].id = "h1-content"

\* C5: checksByCategory has exactly the eight keys essentials, content,
\* accessibility, social, technical, performance, mobile, links; every check is
\* once in the bucket of its category and in no other bucket; the bucket sizes sum
\* to the number of checks; and the essentials, content, accessibility, technical
\* and mobile buckets are never empty.
C5_GroupedByCategory ==
    Reported =>
        LET g == report.checksByCategory
            c == report.checks
            Times(bucket, r) == Cardinality({j \in DOMAIN bucket : bucket[j] = r})
        IN  /\ DOMAIN g = {"essentials", "content", "accessibility", "social",
                           "technical", "performance", "mobile", "links"}
            /\ \A i \in DOMAIN c : \A k \in DOMAIN g :
                   Times(g[k], c[i]) = IF k = c[i].category THEN 1 ELSE 0
            /\ Len(g["essentials"]) + Len(g["content"]) + Len(g["accessibility"])
                   + Len(g["social"]) + Len(g["technical"]) + Len(g["performance"])
                   + Len(g["mobile"]) + Len(g["links"]) = Len(c)
            /\ \A k \in {"essentials", "content", "accessibility", "technical", "mobile"} :
                   g[k] # <<>>

\* A report whose content bucket holds two checks (h1-content and word-count) and
\* whose social, performance and links buckets are empty.
C5_Witness ==
    /\ Reported
    /\ Len(report.checksByCategory["content"]) = 2
    /\ Len(report.checksByCategory["essentials"]) = 2
    /\ report.checksByCategory["social"] = <<>>
    /\ report.checksByCategory["performance"] = <<>>
    /\ report.checksByCategory["links"] = <<>>

\* C6: the report honours the configuration: no result of an ignored check is in
\* the report, and the result of every custom rule is.
C6_ConfigHonoured ==
    Reported =>
        /\ \A i \in DOMAIN report.checks : report.checks[i].id \notin config.ignoredChecks
        /\ \A j \in DOMAIN config.customRules :
               \E i \in DOMAIN report.checks : report.checks[i] = config.customRules[j]

-----------------------------------------------------------------------------
(* Claims about the evaluators (SpecChecks). *)

\* A text of white space only; the empty text is one.
IsBlank(text) == \A i \in DOMAIN text : text[i] \in WhiteSpace

HasPrefix(text, prefix) ==
    Len(text) >= Len(prefix) /\ SubSeq(text, 1, Len(prefix)) = prefix

\* C7: checkTitle gives every title exactly one status: error with displayValue
\* "Missing" iff the title is empty or white space only; otherwise warning iff its
\* length is below 30 or above 60; otherwise success.  A title of 29 characters is
\* a warning with displayValue "29 characters".  isCritical is true in every outcome.
C7_TitleClassified ==
    called = "checkTitle" =>
        LET title == facts.metaTags.title
            n     == Len(title)
            r     == result
        IN  /\ r.id = "title"
            /\ r.status \in {"error", "warning", "success"}
            /\ r.status = "error" <=> IsBlank(title)
            /\ r.displayValue = <<"M", "i", "s", "s", "i", "n", "g">> <=> IsBlank(title)
            /\ r.status = "warning" <=> (~IsBlank(title) /\ (n < 30 \/ n > 60))
            /\ r.status = "success" <=> (~IsBlank(title) /\ n >= 30 /\ n <= 60)
            /\ (~IsBlank(title) /\ n = 29) =>
                   r.displayValue = <<"2", "9", " ", "c", "h", "a", "r", "a", "c", "t", "e", "r", "s">>
            /\ r.isCritical

\* checkTitle has run on a title of 29 characters.
C7_Witness ==
    /\ called = "checkTitle"
    /\ Len(facts.metaTags.title) = 29
    /\ ~IsBlank(facts.metaTags.title)
    /\ result.status = "warning"

\* C8: checkDescription gives every description exactly one status: error iff it
\* is null, empty or white space only; otherwise warning iff its length is below
\* 120 or above 160; otherwise success.  isCritical is true in every outcome.
C8_DescriptionClassified ==
    called = "checkDescription" =>
        LET description == facts.metaTags.description
            missing     == description = Null \/ IsBlank(description)
            n           == Len(description)
            r           == result
        IN  /\ r.id = "description"
            /\ r.status \in {"error", "warning", "success"}
            /\ r.status = "error" <=> missing
            /\ r.status = "warning" <=> (~missing /\ (n < 120 \/ n > 160))
            /\ r.status = "success" <=> (~missing /\ n >= 120 /\ n <= 160)
            /\ r.isCritical

\* checkDescription has run on a description of 160 characters.
C8_Witness ==
    /\ called = "checkDescription"
    /\ Len(facts.metaTags.description) = 160
    /\ ~IsBlank(facts.metaTags.description)
    /\ result.status = "success"

\* C9: checkH1 returns, for no H1, an error h1-count result; for more than one H1, a
\* warning h1-count result whose value lists all H1 texts; for one H1 whose text is
\* shorter than 10 characters, a warning h1-content result in category content that
\* is not critical; for one H1 of 10 characters or more, a success h1-count result.
\* isCritical is true exactly for the h1-count results.
C9_H1Outcomes ==
    called = "checkH1" =>
        LET h1 == facts.headings.h1
            r  == result
        IN  /\ h1.count = 0 => (r.status = "error" /\ r.id = "h1-count")
            /\ h1.count > 1 =>
                   (r.status = "warning" /\ r.id = "h1-count" /\ r.value = h1.texts)
            /\ (h1.count = 1 /\ Len(h1.texts[1]) < 10) =>
                   /\ r.status = "warning"
                   /\ r.id = "h1-content"
                   /\ r.category = "content"
                   /\ ~r.isCritical
            /\ (h1.count = 1 /\ Len(h1.texts[1]) >= 10) =>
                   (r.status = "success" /\ r.id = "h1-count")
            /\ r.id \in {"h1-count", "h1-content"}
            /\ r.isCritical <=> r.id = "h1-count"

\* checkH1 has run on a page whose only H1 has 9 characters.
C9_Witness ==
    /\ called = "checkH1"
    /\ facts.headings.h1.count = 1
    /\ Len(facts.headings.h1.texts[1]) = 9
    /\ result.id = "h1-content"

C11_DisplayValueResolved ==
    (called = "checkCanonical" /\ result.status = "success") =>
        LET canonical == facts.metaTags.canonical
            absolute  == \/ HasPrefix(canonical, <<"h", "t", "t", "p", ":", "/", "/">>)
                         \/ HasPrefix(canonical, <<"h", "t", "t", "p", "s", ":", "/", "/">>)
        IN  result.displayValue
                = IF absolute THEN canonical ELSE NewURL(canonical, location.origin).href

-----------------------------------------------------------------------------
(* Claims about the other evaluators (SpecMoreChecks). *)

\* part occurs in text.
Occurs(text, part) ==
    \E i \in 1..Len(text) : HasPrefix(SubSeq(text, i, Len(text)), part)

\* A word occurs in text in any letter case; the word is given in lower and in
\* upper case.
OccursAnyCase(text, lower, upper) ==
    \E i \in 0..(Len(text) - Len(lower)) :
        \A j \in 1..Len(lower) : text[i + j] \in {lower[j], upper[j]}

\* C12: checkRobots returns info, not critical, iff the robots directive is absent;
\* warning with isCritical and details.noindex true iff it contains "noindex" in
\* any letter case; otherwise success, not critical.  details.nofollow records
\* whether "nofollow" is present, which never changes the status.
C12_RobotsOutcomes ==
    called = "checkRobots" =>
        LET robots   == facts.metaTags.robots
            absent   == robots = Null \/ robots = <<>>
            noindex  == OccursAnyCase(robots, <<"n", "o", "i", "n", "d", "e", "x">>,
                                      <<"N", "O", "I", "N", "D", "E", "X">>)
            nofollow == OccursAnyCase(robots, <<"n", "o", "f", "o", "l", "l", "o", "w">>,
                                      <<"N", "O", "F", "O", "L", "L", "O", "W">>)
            r        == result
        IN  /\ r.id = "robots"
            /\ r.status \in {"info", "warning", "success"}
            /\ r.status = "info" <=> absent
            /\ r.status = "warning" <=> (~absent /\ noindex)
            /\ r.status = "success" <=> (~absent /\ ~noindex)
            /\ r.isCritical <=> r.status = "warning"
            /\ ~absent =>
                   /\ The(r.details).noindex <=> noindex
                   /\ The(r.details).nofollow <=> nofollow

\* checkRobots has run on a directive with NOINDEX in upper case and nofollow.
C12_Witness ==
    /\ called = "checkRobots"
    /\ Occurs(facts.metaTags.robots, <<"N", "O", "I", "N", "D", "E", "X">>)
    /\ Occurs(facts.metaTags.robots, <<"n", "o", "f", "o", "l", "l", "o", "w">>)
    /\ result.status = "warning"
    /\ The(result.details).nofollow

\* C13: checkViewport returns error with isCritical iff the viewport directive is
\* absent; warning, not critical, iff it is present and lacks "width=device-width"
\* or lacks "initial-scale=1"; success, not critical, iff it has both.
C13_ViewportOutcomes ==
    called = "checkViewport" =>
        LET viewport == facts.metaTags.viewport
            absent   == viewport = Null \/ viewport = <<>>
            width    == Occurs(viewport, <<"w", "i", "d", "t", "h", "=", "d", "e", "v", "i", "c", "e", "-", "w", "i", "d", "t", "h">>)
            scale    == Occurs(viewport, <<"i", "n", "i", "t", "i", "a", "l", "-", "s", "c", "a", "l", "e", "=", "1">>)
            r        == result
        IN  /\ r.id = "viewport"
            /\ r.status \in {"error", "warning", "success"}
            /\ r.status = "error" <=> absent
            /\ r.status = "warning" <=> (~absent /\ (~width \/ ~scale))
            /\ r.status = "success" <=> (~absent /\ width /\ scale)
            /\ r.isCritical <=> r.status = "error"

\* checkViewport has run on a directive with width=device-width and without
\* initial-scale=1.
C13_Witness ==
    /\ called = "checkViewport"
    /\ Occurs(facts.metaTags.viewport, WidthDeviceText)
    /\ ~Occurs(facts.metaTags.viewport, InitialScaleText)
    /\ result.status = "warning"

\* The description of the success result for content of the recommended length.
ExcellentMessage == <<"Content length is excellent">>

\* C14 as stated: for the metrics analyzeContent produces and for any metrics
\* passed to checkContent, the result is warning exactly when the word count is
\* below 300 and success otherwise, with the "excellent" message iff the word
\* count is at least 500; it is never error and never critical.
C14_ContentByWordCount ==
    called = "checkContent" =>
        LET wordCount == facts.content.wordCount
            r         == result
        IN  /\ r.status = "warning" <=> wordCount < 300
            /\ r.status = "success" <=> wordCount >= 300
            /\ r.description = ExcellentMessage <=> wordCount >= 500
            /\ r.status # "error"
            /\ ~r.isCritical

\* C14, amended: the result of checkContent is warning exactly when meetsMinLength
\* is false and success otherwise, with the "excellent" message iff meetsMinLength
\* is true and the word count is at least 500; it is never error and never
\* critical.  For the metrics analyzeContent produces, meetsMinLength is false
\* exactly when the word count is below 300, so 299 words give warning, 300 words
\* success, and the message is "excellent" iff the word count is at least 500.
C14_ContentByMinLength ==
    called = "checkContent" =>
        LET wordCount == facts.content.wordCount
            meets     == facts.content.meetsMinLength
            analyzed  == facts.content = analyzeContent(wordCount)
            r         == result
        IN  /\ r.id = "word-count"
            /\ r.status \in {"warning", "success"}
            /\ r.status = "warning" <=> ~meets
            /\ r.description = ExcellentMessage <=> (meets /\ wordCount >= 500)
            /\ ~r.isCritical
            /\ analyzed =>
                   /\ r.status = "warning" <=> wordCount < 300
                   /\ r.description = ExcellentMessage <=> wordCount >= 500

\* checkContent has run on the metrics analyzeContent produces for 300 words.
C14_Witness ==
    /\ called = "checkContent"
    /\ facts.content = analyzeContent(300)
    /\ result.status = "success"
    /\ result.description # ExcellentMessage

\* C15: checkImages returns info iff total = 0; otherwise warning iff missingAlt >
\* 0, with displayValue "<missingAlt>/<total> missing alt text" and
\* details.missingPercentage = round(missingAlt / total * 100) (3 of 10 gives 30);
\* otherwise success; the result is never error and never critical.
C15_ImagesOutcomes ==
    called = "checkImages" =>
        LET total      == facts.images.total
            missingAlt == facts.images.missingAlt
            r          == result
        IN  /\ r.status \in {"info", "warning", "success"}
            /\ r.status = "info" <=> total = 0
            /\ r.status = "warning" <=> (total > 0 /\ missingAlt > 0)
            /\ r.status = "warning" =>
                   /\ r.displayValue
                          = NumToStr(missingAlt) \o <<"/">> \o NumToStr(total)
                            \o <<" ", "m", "i", "s", "s", "i", "n", "g", " ", "a", "l", "t", " ", "t", "e", "x", "t">>
                   /\ The(r.details).missingPercentage
                          = (200 * missingAlt + total) \div (2 * total)
            /\ ~r.isCritical

\* What does hold of checkImages: the statuses are as C15 states them, and the
\* missing percentage is the rounded one or one below it.
ImagesOutcomesWithinOne ==
    called = "checkImages" =>
        LET total      == facts.images.total
            missingAlt == facts.images.missingAlt
            exact      == (200 * missingAlt + total) \div (2 * total)
        IN  /\ result.status = "info" <=> total = 0
            /\ result.status = "warning" <=> (total > 0 /\ missingAlt > 0)
            /\ result.status = "success" <=> (total > 0 /\ missingAlt = 0)
            /\ result.status = "warning" =>
                   The(result.details).missingPercentage \in {exact - 1, exact}
            /\ (total = 10 /\ missingAlt = 3) =>
                   The(result.details).missingPercentage = 30
            /\ ~result.isCritical

\* C16: checkHtmlLang returns warning iff the lang attribute is absent or is not
\* two lower-case letters optionally followed by a hyphen and two upper-case
\* letters, and success iff it is; the result is never error, never info and never
\* critical.
C16_LangOutcomes ==
    called = "checkHtmlLang" =>
        LET lang    == facts.metaTags.htmlLang
            absent  == lang = Null \/ lang = <<>>
            Lower(c) == c \in {"a", "b", "c", "d", "e", "f", "g", "h", "i", "j", "k", "l", "m",
                               "n", "o", "p", "q", "r", "s", "t", "u", "v", "w", "x", "y", "z"}
            Upper(c) == c \in {"A", "B", "C", "D", "E", "F", "G", "H", "I", "J", "K", "L", "M",
                               "N", "O", "P", "Q", "R", "S", "T", "U", "V", "W", "X", "Y", "Z"}
            matches == /\ ~absent
                       /\ Len(lang) \in {2, 5}
                       /\ Lower(lang[1]) /\ Lower(lang[2])
                       /\ Len(lang) = 5 => (lang[3] = "-" /\ Upper(lang[4]) /\ Upper(lang[5]))
            r       == result
        IN  /\ r.id = "html-lang"
            /\ r.status \in {"warning", "success"}
            /\ r.status = "success" <=> matches
            /\ r.status = "warning" <=> (absent \/ ~matches)
            /\ ~r.isCritical

\* checkHtmlLang has run on a lang of six characters that starts like a valid one.
C16_Witness ==
    /\ called = "checkHtmlLang"
    /\ facts.metaTags.htmlLang = <<"e", "e", "-", "N", "N", "e">>
    /\ result.status = "warning"

C18_NoThrow ==
    Reported =>
        /\ report # TypeError
        /\ Len(report.checks) = 9
        /\ \A i \in DOMAIN report.checks :
               /\ report.checks[i] # TypeError
               /\ report.checks[i].status \in {"success", "warning", "error", "info"}
        /\ LET m == facts.metaTags
               c == report.checks
               Failure(r) == r.status \in {"error", "warning", "info"}
           IN  /\ IsBlank(m.title) => Failure(c[1])
               /\ m.description = Null => Failure(c[2])
               /\ facts.headings.h1.count = 0 => Failure(c[3])
               /\ m.canonical = Null => Failure(c[4])
               /\ m.robots = Null => Failure(c[5])
               /\ m.htmlLang = Null => Failure(c[6])
               /\ facts.images.total = 0 => Failure(c[8])
               /\ m.viewport = Null => Failure(c[9])

\* A report of a page on which everything that can be absent is absent.
C18_Witness ==
    /\ Reported
    /\ facts.metaTags.title = <<>>
    /\ facts.metaTags.description = Null
    /\ facts.metaTags.canonical = Null
    /\ facts.metaTags.robots = Null
    /\ facts.metaTags.htmlLang = Null
    /\ facts.metaTags.viewport = Null
    /\ facts.headings.h1.count = 0
    /\ facts.headings.h1.texts = <<>>
    /\ facts.images.total = 0
    /\ report.summary.passed = 0

\* C19: a report uses one scoring strategy: overallScore is computed from the
\* statuses of the checks alone, so the same statuses without score and weight
\* fields give the same overallScore, and the results of one report either all
\* carry the weighted-scoring fields score and weight or none does.
C19_OneScoringStrategy ==
    Reported =>
        LET c == report.checks
            Weighted(r) == r.score # Undefined /\ r.weight # Undefined
            Unweighted(r) == r.score = Undefined /\ r.weight = Undefined
        IN  /\ report.overallScore
                   = calculateScore([i \in DOMAIN c |-> ResultOf(c[i].status)])
            /\ \/ \A i \in DOMAIN c : Weighted(c[i])
               \/ \A i \in DOMAIN c : Unweighted(c[i])

\* What does hold of the scoring of a report: overallScore is computed from the
\* statuses alone, and exactly the title and description results carry score and
\* weight.
ScoreFromStatusesOnly ==
    Reported =>
        LET c == report.checks
        IN  /\ report.overallScore
                   = calculateScore([i \in DOMAIN c |-> ResultOf(c[i].status)])
            /\ \A i \in DOMAIN c :
                   /\ c[i].score # Undefined <=> c[i].id \in {"title", "description"}
                   /\ c[i].weight # Undefined <=> c[i].id \in {"title", "description"}

-----------------------------------------------------------------------------
(* Claims about analyzeHeadings (SpecHeadings). *)

\* The levels of the document's headings, in document order.
LevelsOf(doc) == [i \in 1..Len(doc.headings) |-> doc.headings[i].level]

\* C20: analyzeHeadings sets hasLogicalHierarchy to false iff the level of some
\* heading exceeds the level of the heading before it in document order by more
\* than one (h1, h3, h2 gives false), and to true otherwise.
C20_HierarchyInDocumentOrder ==
    called = "analyzeHeadings" =>
        LET levels == LevelsOf(document)
            jumps  == \E i \in 2..Len(levels) : levels[i] > levels[i - 1] + 1
        IN  result.hasLogicalHierarchy <=> ~jumps

\* What does hold of analyzeHeadings: the headings are checked level after level,
\* so hasLogicalHierarchy is false iff a level that occurs is more than one above
\* the next lower level that occurs.
HierarchyInLevelOrder ==
    called = "analyzeHeadings" =>
        LET present == {LevelsOf(document)[i] : i \in 1..Len(document.headings)}
            gap     == \E l \in present :
                           /\ \E k \in present : k < l
                           /\ \A k \in present : k < l => k < l - 1
        IN  /\ result.hasLogicalHierarchy <=> ~gap
            /\ \A i \in 2..Len(result.allHeadings) :
                   result.allHeadings[i - 1].level <= result.allHeadings[i].level


-----------------------------------------------------------------------------
(* Claims about analyzeLinks (SpecLinks). *)

\* C21: analyzeLinks counts each anchor with an href in at most one of internal
\* and external.  A href that starts with mailto:, tel: or javascript: is counted
\* in neither; any other href is internal iff it is root-relative, a fragment,
\* query-only, or resolves to the hostname of the page, and otherwise external
\* iff it starts with http:// or https://.  No link whose resolved hostname
\* differs from the hostname of the page is counted as internal.
C21_LinksClassified ==
    called = "analyzeLinks" =>
        LET links    == document.links
            page     == HostnameOf(location.href, location.href)
            hostname == IF page.ok THEN page.hostname ELSE <<>>
            Resolved(i) == HostnameOf(links[i].href, location.origin)
            ignored  ==
                {i \in DOMAIN links :
                    \/ links[i].href = <<>>
                    \/ HasPrefix(links[i].href, <<"m", "a", "i", "l", "t", "o", ":">>)
                    \/ HasPrefix(links[i].href, <<"t", "e", "l", ":">>)
                    \/ HasPrefix(links[i].href,
                                 <<"j", "a", "v", "a", "s", "c", "r", "i", "p", "t", ":">>)}
            internal ==
                {i \in DOMAIN links \ ignored :
                    \/ HasPrefix(links[i].href, <<"/">>)
                    \/ HasPrefix(links[i].href, <<"#">>)
                    \/ HasPrefix(links[i].href, <<"?">>)
                    \/ Resolved(i).ok /\ Resolved(i).hostname = hostname}
            external ==
                {i \in DOMAIN links \ (ignored \cup internal) :
                    \/ HasPrefix(links[i].href, <<"h", "t", "t", "p", ":", "/", "/">>)
                    \/ HasPrefix(links[i].href, <<"h", "t", "t", "p", "s", ":", "/", "/">>)}
            foreign  ==
                {i \in DOMAIN links : Resolved(i).ok /\ Resolved(i).hostname # hostname}
        IN  /\ result.internal = Cardinality(internal)
            /\ result.external = Cardinality(external)
            /\ result.internal + result.external <= Len(links)
            /\ result.internal <= Len(links) - Cardinality(foreign)

\* What does hold of analyzeLinks: the counts are those of the claim.
LinksCounted ==
    called = "analyzeLinks" =>
        LET links    == document.links
            page     == HostnameOf(location.href, location.href)
            hostname == IF page.ok THEN page.hostname ELSE <<>>
            ignored  ==
                {i \in DOMAIN links :
                    \/ links[i].href = <<>>
                    \/ HasPrefix(links[i].href, <<"m", "a", "i", "l", "t", "o", ":">>)
                    \/ HasPrefix(links[i].href, <<"t", "e", "l", ":">>)
                    \/ HasPrefix(links[i].href,
                                 <<"j", "a", "v", "a", "s", "c", "r", "i", "p", "t", ":">>)}
            internal ==
                {i \in DOMAIN links \ ignored :
                    \/ HasPrefix(links[i].href, <<"/">>)
                    \/ HasPrefix(links[i].href, <<"#">>)
                    \/ HasPrefix(links[i].href, <<"?">>)
                    \/ /\ HostnameOf(links[i].href, location.origin).ok
                       /\ HostnameOf(links[i].href, location.origin).hostname = hostname}
            external ==
                {i \in DOMAIN links \ (ignored \cup internal) :
                    \/ HasPrefix(links[i].href, <<"h", "t", "t", "p", ":", "/", "/">>)
                    \/ HasPrefix(links[i].href, <<"h", "t", "t", "p", "s", ":", "/", "/">>)}
        IN  /\ result.internal = Cardinality(internal)
            /\ result.external = Cardinality(external)
            /\ result.internal + result.external <= Len(links)

-----------------------------------------------------------------------------
(* Claims about analyzeImages (SpecImages). *)

-----------------------------------------------------------------------------
(* Claims about analyzeStructuredData (SpecStructuredData). *)

\* The @type a script declares: the string, or the one string of an array, that
\* is the @type member of the object the script's text parses to; "" if there is
\* none.
DeclaredType(script) ==
    LET parsed == JSONParse(script)
        fields == parsed.value.fields
        type   == fields["@type"]
    IN  IF ~parsed.ok THEN ""
        ELSE IF parsed.value.kind # "object" THEN ""
        ELSE IF "@type" \notin DOMAIN fields THEN ""
        ELSE IF type.kind = "string" THEN type.value
        ELSE IF type.kind = "array" /\ Len(type.items) = 1 /\ type.items[1].kind = "string"
        THEN type.items[1].value
        ELSE ""

\* C23: analyzeStructuredData never aborts on a bad item.  For n JSON-LD scripts
\* it returns exactly n items in document order.  An item whose JSON cannot be
\* parsed, or whose @type is absent or not in the schema table, has isValid =
\* false, a non-empty errors list and the fallback type Article.  An item of a
\* known type (the @type, or the one element of an @type array, is in the schema
\* table) carries the parsed data and is valid iff every required field of that
\* type is present and not null.  The overall isValid is true iff every item is
\* valid.
C23_ItemPerScript ==
    called = "analyzeStructuredData" =>
        LET scripts == document.scripts
            items   == result.items
            Known(i) == DeclaredType(scripts[i]) \in DOMAIN STRUCTURED_DATA_SCHEMAS
            Data(i)  == JSONParse(scripts[i]).value
            Required(i) == STRUCTURED_DATA_SCHEMAS[DeclaredType(scripts[i])].required
        IN  /\ Len(items) = Len(scripts)
            /\ \A i \in DOMAIN scripts :
                   /\ items[i].position = i - 1
                   /\ ~Known(i) =>
                          /\ ~items[i].isValid
                          /\ items[i].errors # <<>>
                          /\ items[i].type = [kind |-> "string", value |-> "Article"]
                   /\ Known(i) =>
                          /\ items[i].data = Data(i)
                          /\ items[i].isValid
                                 <=> \A k \in DOMAIN Required(i) :
                                         /\ Required(i)[k] \in DOMAIN Data(i).fields
                                         /\ Data(i).fields[Required(i)[k]].kind # "null"
                          /\ items[i].isValid <=> items[i].errors = <<>>
            /\ result.isValid <=> \A i \in DOMAIN items : items[i].isValid
            /\ result.hasStructuredData <=> scripts # <<>>

\* analyzeStructuredData has run on a script that cannot be parsed, followed by a
\* valid item and by an item of a known type with a required field that is null.
C23_Witness ==
    /\ called = "analyzeStructuredData"
    /\ Len(document.scripts) = 2
    /\ ~JSONParse(document.scripts[1]).ok
    /\ DeclaredType(document.scripts[2]) = "Article"
    /\ ~result.items[1].isValid
    /\ ~result.items[2].isValid
    /\ Len(result.items[2].errors) = 2
    /\ ~result.isValid

\* The sum of the values of a function with a finite domain.
RECURSIVE SumOf(_)
SumOf(f) ==
    IF DOMAIN f = {} THEN 0
    ELSE LET x == CHOOSE x \in DOMAIN f : TRUE
         IN  f[x] + SumOf([y \in DOMAIN f \ {x} |-> f[y]])

\* C30: for every page, the typeCount values sum to the number of items,
\* typeCount[t] is the number of JSON-LD scripts whose declared @type is t for
\* every type t of the schema table, and globalErrors is empty.
C30_TypeCountOfDeclared ==
    called = "analyzeStructuredData" =>
        LET scripts == document.scripts
        IN  /\ SumOf(result.typeCount) = Len(result.items)
            /\ \A t \in DOMAIN STRUCTURED_DATA_SCHEMAS :
                   result.typeCount[t]
                       = Cardinality({i \in DOMAIN scripts : DeclaredType(scripts[i]) = t})
            /\ result.globalErrors = <<>>

\* What does hold of typeCount: it counts the items by the type they carry, which
\* is Article for every script that declares no type of the schema table.
TypeCountOfItems ==
    called = "analyzeStructuredData" =>
        LET scripts  == document.scripts
            Known(i) == DeclaredType(scripts[i]) \in DOMAIN STRUCTURED_DATA_SCHEMAS
        IN  /\ SumOf(result.typeCount) = Len(result.items)
            /\ Len(result.items) = Len(scripts)
            /\ \A t \in DOMAIN STRUCTURED_DATA_SCHEMAS :
                   result.typeCount[t]
                       = Cardinality({i \in DOMAIN scripts :
                                         \/ DeclaredType(scripts[i]) = t
                                         \/ t = "Article" /\ ~Known(i)})
            /\ result.globalErrors = <<>>

-----------------------------------------------------------------------------
(* Claims about the SeoDevBuddy components (SpecComponents, FairSpecComponents). *)

\* A step in which the callback of a pending analysis timer runs.
Analysed ==
    \E t \in component.timers, throws \in BOOLEAN :
        component' = TimerCallback(component, t, throws)

\* What holds of the popover in every state: at most one analysis timer is
\* pending, and closed with its effect run it shows initialState and is loading.
PopoverSettled ==
    component.kind = "popover" =>
        /\ Cardinality(component.timers) <= 1
        /\ (~component.isOpen /\ ~component.effectPending)
              => (component.seoData = initialState /\ component.isLoading)

\* C24 as stated: in the popover the timer callback never runs while the popover
\* is closed, at most one analysis timer is pending at a time, and whenever the
\* popover is closed and its effect has run, seoData is initialState and
\* isLoading is true.
C24_NeverAnalysesClosed ==
    /\ []PopoverSettled
    /\ [][(component.kind = "popover" /\ Analysed) => component.isOpen]_vars

\* C24, amended: the timer callback never runs while the popover is closed once
\* the effect of the closing has run (between the render that closes it and that
\* effect the timer is still pending and may fire); at most one analysis timer
\* is pending at a time; closed with its effect run, seoData is initialState and
\* isLoading is true.
C24_NeverAnalysesClosedAfterEffect ==
    /\ []PopoverSettled
    /\ [][(component.kind = "popover" /\ Analysed)
            => (component.isOpen \/ component.effectPending)]_vars

\* The popover was opened with its timer started, then closed, and the effect of
\* the closing has run: the timer is gone.
C24_Witness ==
    /\ component.kind = "popover"
    /\ component.opens >= 2
    /\ ~component.isOpen
    /\ ~component.effectPending
    /\ component.timers = {}
    /\ component.logged = 0

\* What C25 says of the styled component in every state: at most one analysis
\* timer is pending, and open with isLoading false it shows data extracted after
\* the most recent opening.
StyledFresh ==
    component.kind = "styled" =>
        /\ Cardinality(component.timers) <= 1
        /\ (component.isOpen /\ ~component.isLoading)
              => component.seoData = [analysed |-> component.opens]

\* C25: in the styled component at most one analysis timer is pending at a time,
\* isLoading becomes false only when the timer started by the most recent opening
\* fires, and whenever the panel is open with isLoading false the displayed
\* seoData was extracted after the most recent opening.
C25_OnlyLatestAnalysisShown ==
    /\ []StyledFresh
    /\ [][(component.kind = "styled" /\ component.isLoading /\ ~component'.isLoading)
            => /\ component.opens \in component.timers
               /\ \E throws \in BOOLEAN :
                     component' = TimerCallback(component, component.opens, throws)]_vars

\* What the styled component does keep: a timer is pending only for an opening
\* that happened, and the data shown is never of a later opening than the last.
StyledTimersOfOpenings ==
    component.kind = "styled" =>
        /\ component.timers \subseteq 1..component.opens
        /\ component.seoData.analysed <= component.opens

\* C26: in both components, a panel that is opened and stays open eventually has
\* the analysis of that opening completed and isLoading false; and when the
\* analysis throws, the exception is logged, isLoading is cleared all the same
\* and seoData keeps the value it had.
C26_AnalysisCompletes ==
    /\ component.isOpen
         ~> (\/ ~component.isOpen
             \/ /\ ~component.effectPending
                /\ component.opens \notin component.timers
                /\ ~component.isLoading)
    /\ [][component'.logged = component.logged + 1
            => (~component'.isLoading /\ component'.seoData = component.seoData)]_vars

\* A panel is open, the analysis of this opening threw and was logged, and the
\* panel is no longer loading; it still shows what it showed before.
C26_Witness ==
    /\ component.isOpen
    /\ ~component.effectPending
    /\ component.opens = 1
    /\ component.timers = {}
    /\ component.logged = 1
    /\ ~component.isLoading
    /\ component.seoData = initialState

-----------------------------------------------------------------------------
(* Claims about the score and the summary of a report (Spec). *)

\* C27: the overallScore of every report lies in 22..100: the robots, html-lang,
\* content-length and image-alt results never have status error, so at most five
\* of the nine results score 0; and the score is 100 iff all nine are success.
C27_ScoreAtLeast22 ==
    (Reported /\ report # TypeError) =>
        LET checks == report.checks
        IN  /\ Len(checks) = 9
            /\ report.overallScore \in 22..100
            /\ \A i \in DOMAIN checks :
                  checks[i].id \in {SEO_CHECK_IDS.ROBOTS, SEO_CHECK_IDS.HTML_LANG,
                                    SEO_CHECK_IDS.WORD_COUNT, SEO_CHECK_IDS.IMAGE_ALT}
                     => checks[i].status # "error"
            /\ CountStatus(checks, "error") <= 5
            /\ report.overallScore = 100
                  <=> \A i \in DOMAIN checks : checks[i].status = "success"

\* A report with the lowest score: five errors and four warnings.
C27_Witness ==
    /\ Reported
    /\ report # TypeError
    /\ report.overallScore = 22
    /\ CountStatus(report.checks, "error") = 5
    /\ CountStatus(report.checks, "warning") = 4

C29_ResultsInCatalog ==
    (Reported /\ report # TypeError) =>
        \A i \in DOMAIN report.checks :
            report.checks[i].id \in CHECK_CATEGORIES[report.checks[i].category]

\* The results of all evaluators but checkHtmlLang are listed under the category
\* they carry, the h1-content result included; the html-lang result carries
\* accessibility and is listed under essentials.
ResultsInCatalogButLang ==
    (Reported /\ report # TypeError) =>
        \A i \in DOMAIN report.checks :
            LET r == report.checks[i]
            IN  IF r.id = SEO_CHECK_IDS.HTML_LANG
                THEN /\ r.category = "accessibility"
                     /\ r.id \notin CHECK_CATEGORIES[r.category]
                     /\ r.id \in CHECK_CATEGORIES.essentials
                ELSE r.id \in CHECK_CATEGORIES[r.category]

====
